---- MODULE Spec2Model ----
(***************************************************************************)
(* Redactify: a model of the redaction tool's two front ends.              *)
(*                                                                         *)
(*  - the term tool (src/src/components/RedactionTool.tsx): a list of      *)
(*    positioned text items, a phrase matcher (findMatchingTextItems) and  *)
(*    the two exports built on it;                                         *)
(*  - the drawing tool (src/unnamed/part_002, earlier revision in          *)
(*    src/unnamed/part_004): a list of drawn regions, page rendering on a  *)
(*    shared canvas (renderPage) and the two exports of the region list.   *)
(*                                                                         *)
(* Strings are sequences of one-character strings.  In the term tool       *)
(* lengths and positions are integers in tenths of a page unit, so that    *)
(* the source's 0.1 and 0.5 thresholds are exact.  In the drawing tool     *)
(* screen lengths are whole pixels and page-space lengths are counted in   *)
(* 1/RenderScale of a page unit (halves), so that the source's division by *)
(* the scale 2.0 is exact, as it is in floating point.                     *)
(***************************************************************************)
EXTENDS Integers, Sequences, FiniteSets, TLC

VARIABLES
    \* ---- term tool (RedactionTool.tsx) ----
    pdfTextItems,   \* useState<PdfTextItem[]>: the document's text items
    term,           \* the argument of findMatchingTextItems
    results,        \* the value findMatchingTextItems returned
    searched,       \* whether findMatchingTextItems has returned
    \* ---- drawing tool (part_002) ----
    originalPdf,        \* useState<ArrayBuffer | null>: the document's bytes
    pdfDocument,        \* useState<PDFDocumentProxy | null>: the parsed document
    redactions,         \* useState<RedactionArea[]>: the region list
    currentPageNumber,  \* useState(1): the page shown, 1-based
    isDrawing,          \* useState(false): a drag is in progress
    dragStateRef,       \* useRef: where the drag started (screen pixels)
    pageViewport,       \* useState<PageViewport | null>: the viewport of the page rendered
    isDownloading,      \* useState<string | null>: the export mode in flight
    isParsing,          \* useState(false)
    load,               \* the upload in progress (FileReader, getDocument)
    exports,            \* the export handlers suspended at an await
    download,           \* what the last step called downloadPdf with, if it did
    toast,              \* the toast the last step showed, if it did
    \* ---- drawing tool, page rendering (part_002, renderPage) ----
    renders,            \* the renderPage calls in progress
    renderTaskRef,      \* useRef<RenderTask | null>: the task stored last
    canvas,             \* the page the shared canvas shows, 0 when cleared
    \* ---- drawing tool, earlier revision (part_004) ----
    drawStartPoint,     \* useState<{x, y} | null>: where the drag started
    currentDrawing,     \* useState<{x, y, width, height} | null>: the drag's rectangle
    mouseUps,           \* the handleMouseUp calls suspended at getPage
    \* ---- drawing tool, annotations (part_002) ----
    allAnnotations,             \* useState<AnnotationInfo[]>: the pages of the annotations found
    currentAnnotationIndex,     \* useState(-1), 0-based
    isHighlightingAnnotations,  \* useState(false)
    isProcessingAnnotations,    \* useState(false)
    removal,            \* the handleRemoveAnnotations call suspended at an await
    \* ---- term tool, the session (RedactionTool.tsx) ----
    redactionTerms,     \* useState<string[]>: the terms to redact
    documentText,       \* useState(""): the text shown, here the list of its pieces
    \* ---- drawing tool, the file's name (part_002) ----
    originalFilename,   \* useState<string>(''): file.name of the upload
    \* ---- history ----
    insertionOrder,     \* the ids of the regions in the list, in the order they were added
    viewportPage        \* the page whose getPage produced the stored viewport (SpecRender)

matchVars == <<pdfTextItems, term, results, searched>>

toolVars == <<originalPdf, pdfDocument, redactions, currentPageNumber, isDrawing,
              dragStateRef, pageViewport, isDownloading, isParsing, load,
              exports, download, toast>>

renderVars == <<renders, renderTaskRef, canvas>>

drawVars == <<drawStartPoint, currentDrawing, mouseUps>>

annotVars == <<allAnnotations, currentAnnotationIndex, isHighlightingAnnotations,
               isProcessingAnnotations, removal>>

termVars == <<redactionTerms, documentText>>

nameVars == <<originalFilename>>

historyVars == <<insertionOrder, viewportPage>>

vars == <<pdfTextItems, term, results, searched,
          originalPdf, pdfDocument, redactions, currentPageNumber, isDrawing,
          dragStateRef, pageViewport, isDownloading, isParsing, load,
          exports, download, toast, renders, renderTaskRef, canvas,
          drawStartPoint, currentDrawing, mouseUps,
          allAnnotations, currentAnnotationIndex, isHighlightingAnnotations,
          isProcessingAnnotations, removal, redactionTerms, documentText,
          originalFilename, insertionOrder, viewportPage>>

\* Math.abs, Math.min.
Abs(n) == IF n < 0 THEN -n ELSE n
Min(a, b) == IF a < b THEN a ELSE b

\* Math.min and Math.max over a non-empty set of numbers.
SetMin(S) == CHOOSE a \in S : \A b \in S : a <= b
SetMax(S) == CHOOSE a \in S : \A b \in S : a >= b

(***************************************************************************)
(* Strings                                                                 *)
(***************************************************************************)

\* String.prototype.toLowerCase, one character.
LowerChar(c) ==
    CASE c = "A" -> "a"
      [] c = "B" -> "b"
      [] OTHER -> c

\* String.prototype.toLowerCase.
toLowerCase(s) == [k \in 1..Len(s) |-> LowerChar(s[k])]

\* White space as trim() sees it.
IsWhitespace(c) == c = " "

\* String.prototype.trim.
RECURSIVE trim(_)
trim(s) ==
    IF s = <<>> THEN s
    ELSE IF IsWhitespace(s[1]) THEN trim(Tail(s))
    ELSE IF IsWhitespace(s[Len(s)]) THEN trim(SubSeq(s, 1, Len(s) - 1))
    ELSE s

\* The positions (0-based) at which t occurs in s.
Occurrences(s, t) ==
    {k \in 0..(Len(s) - Len(t)) : SubSeq(s, k + 1, k + Len(t)) = t}

\* String.prototype.includes.
includes(s, t) == Occurrences(s, t) # {}

\* String.prototype.replace(t, ''): the first occurrence of t removed.
replaceFirst(s, t) ==
    IF ~includes(s, t) THEN s
    ELSE LET k == CHOOSE a \in Occurrences(s, t) :
                      \A b \in Occurrences(s, t) : a <= b
         IN SubSeq(s, 1, k) \o SubSeq(s, k + Len(t) + 1, Len(s))

(***************************************************************************)
(* Drawing tool: state                                                     *)
(*                                                                         *)
(* A document is [numPages]; NoDocument stands for null.  A region is      *)
(* [id, pageIndex, x, y, width, height] in page units; id stands for the   *)
(* identity of the object, which handleRemoveSingleRedaction compares.     *)
(***************************************************************************)

\* The most pages an uploaded document has.
MaxPages == 2
\* The most regions the list is let grow to.
MaxRedactions == 1
\* The most export handlers suspended at the same time.
MaxExports == 2

\* The size of every page, in page units.
PageWidth == 60
PageHeight == 80

\* page.getViewport({ scale: 2.0 })
RenderScale == 2

\* page.getViewport({ scale: 2.0 }) of a page; NoViewport stands for null.
NoViewport == [width |-> 0, height |-> 0, scale |-> 0]
Viewport == [ width |-> PageWidth * RenderScale, height |-> PageHeight * RenderScale,
              scale |-> RenderScale ]

\* The width and height of a page of the source, which pdf-lib's load keeps.
SourcePageSize == [width |-> PageWidth, height |-> PageHeight]

\* newPdfDoc.addPage([viewport.width, viewport.height]): the size, in page
\* units, of a page the secure export adds.
addPageSize == [width |-> Viewport.width, height |-> Viewport.height]

NoDocument == [numPages |-> 0]
Document(n) == [numPages |-> n]

NoLoad == [pc |-> "none", file |-> NoDocument]

\* null, for a point and for a rectangle of the screen.
NoPoint == <<-1, -1>>
NoDrawing == [x |-> -1, y |-> -1, width |-> 0, height |-> 0]
NoDownload == [mode |-> "none", filename |-> <<>>, source |-> NoDocument, pages |-> <<>>]

\* The state of the component when it is mounted.
NoRemoval == [pc |-> "idle"]

\* The annotation state after construction.
AnnotationsIdle ==
    /\ allAnnotations = <<>>
    /\ currentAnnotationIndex = -1
    /\ isHighlightingAnnotations = FALSE
    /\ isProcessingAnnotations = FALSE
    /\ removal = NoRemoval

\* The term tool's session after construction.
TermsIdle ==
    /\ redactionTerms = <<>>
    /\ documentText = <<>>

\* The state after construction, the term list apart.
SessionIdle ==
    /\ originalPdf = NoDocument
    /\ pdfDocument = NoDocument
    /\ redactions = <<>>
    /\ currentPageNumber = 1
    /\ isDrawing = FALSE
    /\ dragStateRef = <<0, 0>>
    /\ pageViewport = NoViewport
    /\ isDownloading = "null"
    /\ isParsing = FALSE
    /\ load = NoLoad
    /\ exports = <<>>
    /\ download = NoDownload
    /\ toast = ""
    /\ renders = <<>>
    /\ renderTaskRef = 0
    /\ canvas = 0
    /\ drawStartPoint = NoPoint
    /\ currentDrawing = NoDrawing
    /\ mouseUps = <<>>
    /\ AnnotationsIdle
    /\ originalFilename = <<>>
    /\ insertionOrder = <<>>
    /\ viewportPage = 0

ToolIdle == SessionIdle /\ TermsIdle

\* s without its element at index k.
RemoveAt(s, k) == SubSeq(s, 1, k - 1) \o SubSeq(s, k + 1, Len(s))

(***************************************************************************)
(* Drawing tool: upload and reset                                          *)
(***************************************************************************)

\* handleReset, the setters it calls.
handleReset ==
    /\ originalPdf' = NoDocument
    /\ pdfDocument' = NoDocument
    /\ redactions' = <<>>
    /\ currentPageNumber' = 1
    /\ isDownloading' = "null"

\* setOriginalFilename('') of handleReset; handleFileUpload stores file.name
\* right after it.
handleResetFilename == originalFilename' = <<>>

\* file.name of the files uploaded.
UploadedName == <<"a", ".", "p">>

\* A file can be chosen or dropped only while the upload area is shown.
UploadAreaShown == pdfDocument = NoDocument /\ ~isParsing

\* handleFileUpload with a file that is not a PDF.
UploadInvalidType ==
    /\ UploadAreaShown
    /\ toast' = "Invalid File Type"
    /\ download' = NoDownload
    /\ UNCHANGED <<originalPdf, pdfDocument, redactions, currentPageNumber,
                   isDrawing, dragStateRef, pageViewport, isDownloading,
                   isParsing, load, exports>>

\* handleFileUpload with a PDF of n pages, up to reader.readAsArrayBuffer.
StartUpload(n) ==
    /\ UploadAreaShown
    /\ handleReset
    /\ isParsing' = TRUE
    /\ originalFilename' = UploadedName
    /\ load' = [pc |-> "reading", file |-> Document(n)]
    /\ download' = NoDownload
    /\ toast' = ""
    /\ UNCHANGED <<isDrawing, dragStateRef, pageViewport, exports>>

\* reader.onerror.
ReaderError ==
    /\ load.pc = "reading"
    /\ toast' = "File Read Error"
    /\ isParsing' = FALSE
    /\ load' = NoLoad
    /\ download' = NoDownload
    /\ UNCHANGED <<originalPdf, pdfDocument, redactions, currentPageNumber,
                   isDrawing, dragStateRef, pageViewport, isDownloading,
                   exports>>

\* reader.onload, getDocument resolved: the document is installed and the
\* scans for annotations and layers are awaited.
LoadParsed ==
    /\ load.pc = "reading"
    /\ originalPdf' = load.file
    /\ pdfDocument' = load.file
    /\ currentPageNumber' = 1
    /\ load' = [load EXCEPT !.pc = "scanning"]
    /\ download' = NoDownload
    /\ toast' = ""
    /\ UNCHANGED <<redactions, isDrawing, dragStateRef, pageViewport,
                   isDownloading, isParsing, exports>>

\* reader.onload, the scans done: the toast and the finally block.
LoadFinished ==
    /\ load.pc = "scanning"
    /\ toast' = "PDF Loaded"
    /\ isParsing' = FALSE
    /\ load' = NoLoad
    /\ download' = NoDownload
    /\ UNCHANGED <<originalPdf, pdfDocument, redactions, currentPageNumber,
                   isDrawing, dragStateRef, pageViewport, isDownloading,
                   exports>>

\* reader.onload, getDocument rejected: the catch and the finally block.
LoadFailed(passwordException) ==
    /\ load.pc = "reading"
    /\ toast' = IF passwordException THEN "Encrypted PDF: cannot be loaded"
                ELSE "PDF Parsing Error"
    /\ handleReset
    /\ handleResetFilename
    /\ isParsing' = FALSE
    /\ load' = NoLoad
    /\ download' = NoDownload
    /\ UNCHANGED <<isDrawing, dragStateRef, pageViewport, exports>>

\* The Reset button, enabled while a document is shown or being parsed.
Reset ==
    /\ pdfDocument # NoDocument \/ isParsing
    /\ handleReset
    /\ handleResetFilename
    /\ download' = NoDownload
    /\ toast' = ""
    /\ UNCHANGED <<isDrawing, dragStateRef, pageViewport, isParsing, load,
                   exports>>

(***************************************************************************)
(* Drawing tool: page navigation and rendering                             *)
(***************************************************************************)

totalPages == pdfDocument.numPages

\* The previous-page button.
PrevPage ==
    /\ pdfDocument # NoDocument
    /\ currentPageNumber > 1
    /\ currentPageNumber' = currentPageNumber - 1
    /\ download' = NoDownload
    /\ toast' = ""
    /\ UNCHANGED <<originalPdf, pdfDocument, redactions, isDrawing,
                   dragStateRef, pageViewport, isDownloading, isParsing,
                   load, exports>>

\* The next-page button.
NextPage ==
    /\ pdfDocument # NoDocument
    /\ currentPageNumber < totalPages
    /\ currentPageNumber' = currentPageNumber + 1
    /\ download' = NoDownload
    /\ toast' = ""
    /\ UNCHANGED <<originalPdf, pdfDocument, redactions, isDrawing,
                   dragStateRef, pageViewport, isDownloading, isParsing,
                   load, exports>>

\* renderPage(currentPageNumber) run to the point where it stores the
\* viewport of the page (its awaits are modelled one by one under SpecRender).
RenderCurrentPage ==
    /\ pdfDocument # NoDocument
    /\ pageViewport' = Viewport
    /\ download' = NoDownload
    /\ toast' = ""
    /\ UNCHANGED <<originalPdf, pdfDocument, redactions, currentPageNumber,
                   isDrawing, dragStateRef, isDownloading, isParsing, load,
                   exports>>

(***************************************************************************)
(* Drawing tool: the region list                                           *)
(***************************************************************************)

\* The points (screen pixels) a drag starts at, and the points it ends at.
DragStarts == { <<20, 40>> }
DragEnds == { <<20, 40>>, <<24, 44>>, <<0, 0>> }

\* A drag must be wider and higher than this many pixels.
MinDragSize == 5

\* PageViewport.convertToPdfPoint at scale 2.0, no rotation: the page point,
\* in 1/RenderScale of a page unit, of the screen point (x, y).
convertToPdfPoint(x, y) ==
    << (x * RenderScale) \div pageViewport.scale,
       ((pageViewport.height - y) * RenderScale) \div pageViewport.scale >>

\* The identity of a newly created region object.
FreshId == CHOOSE i \in 1..(Len(redactions) + 1) :
               \A k \in 1..Len(redactions) : redactions[k].id # i

\* handleMouseDown at screen point p.
handleMouseDown(p) ==
    /\ pdfDocument # NoDocument
    /\ isDownloading = "null"
    /\ ~isDrawing
    /\ dragStateRef' = p
    /\ isDrawing' = TRUE
    /\ download' = NoDownload
    /\ toast' = ""
    /\ UNCHANGED <<originalPdf, pdfDocument, redactions, currentPageNumber,
                   pageViewport, isDownloading, isParsing, load, exports>>

\* handleMouseDown while the list has room for another region.
MouseDown(p) ==
    /\ Len(redactions) < MaxRedactions
    /\ handleMouseDown(p)

\* The region handleMouseUp stores for a drag from dragStateRef to p.
DrawnRegion(p) ==
    LET finalWidth == Abs(dragStateRef[1] - p[1])
        finalHeight == Abs(dragStateRef[2] - p[2])
        finalX == Min(dragStateRef[1], p[1])
        finalY == Min(dragStateRef[2], p[2])
        pdf1 == convertToPdfPoint(finalX, finalY + finalHeight)
        pdf2 == convertToPdfPoint(finalX + finalWidth, finalY)
    IN [ id |-> FreshId,
         pageIndex |-> currentPageNumber - 1,
         x |-> Min(pdf1[1], pdf2[1]),
         y |-> Min(pdf1[2], pdf2[2]),
         width |-> Abs(pdf1[1] - pdf2[1]),
         height |-> Abs(pdf1[2] - pdf2[2]) ]

\* handleMouseUp at screen point p.  interactionRef.current is the div that
\* is mounted while a document is shown.
MouseUp(p) ==
    /\ isDrawing
    /\ isDrawing' = FALSE
    /\ IF /\ pdfDocument # NoDocument
          /\ pageViewport # NoViewport
          /\ Abs(dragStateRef[1] - p[1]) > MinDragSize
          /\ Abs(dragStateRef[2] - p[2]) > MinDragSize
       THEN redactions' = Append(redactions, DrawnRegion(p))
       ELSE redactions' = redactions
    /\ download' = NoDownload
    /\ toast' = ""
    /\ UNCHANGED <<originalPdf, pdfDocument, currentPageNumber, dragStateRef,
                   pageViewport, isDownloading, isParsing, load, exports>>

\* The Undo and Clear All buttons are enabled.
EditButtonsEnabled ==
    /\ pdfDocument # NoDocument
    /\ redactions # <<>>
    /\ isDownloading = "null"

\* handleUndo.
\* prev.slice(1): the list without its first element.
sliceFirst(prev) == SubSeq(prev, 2, Len(prev))

\* prev.slice(0, -1): the list without its last element.
slice(prev) == SubSeq(prev, 1, Len(prev) - 1)

\* The Undo button: handleUndo.
Undo ==
    /\ EditButtonsEnabled
    /\ redactions' = slice(redactions)
    /\ download' = NoDownload
    /\ toast' = ""
    /\ UNCHANGED <<originalPdf, pdfDocument, currentPageNumber, isDrawing,
                   dragStateRef, pageViewport, isDownloading, isParsing,
                   load, exports>>

\* The Clear All button: setRedactions([]).
ClearAll ==
    /\ EditButtonsEnabled
    /\ redactions' = <<>>
    /\ download' = NoDownload
    /\ toast' = ""
    /\ UNCHANGED <<originalPdf, pdfDocument, currentPageNumber, isDrawing,
                   dragStateRef, pageViewport, isDownloading, isParsing,
                   load, exports>>

\* Two regions with the same page and the same rectangle.
sameGeometry(r, q) ==
    /\ r.pageIndex = q.pageIndex
    /\ r.x = q.x /\ r.y = q.y /\ r.width = q.width /\ r.height = q.height

\* "r === redactionToRemove": the two are the same object.
sameObject(r, q) == r.id = q.id

\* handleRemoveSingleRedaction on the overlay of the region at list index
\* indexToRemove; overlays are shown for the regions of the current page.
RemoveSingleRedaction(indexToRemove) ==
    /\ pdfDocument # NoDocument
    /\ pageViewport # NoViewport
    /\ indexToRemove \in 1..Len(redactions)
    /\ redactions[indexToRemove].pageIndex = currentPageNumber - 1
    /\ LET redactionToRemove == redactions[indexToRemove]
       IN redactions' = SelectSeq(redactions,
                                  LAMBDA r : ~sameObject(r, redactionToRemove))
    /\ download' = NoDownload
    /\ toast' = ""
    /\ UNCHANGED <<originalPdf, pdfDocument, currentPageNumber, isDrawing,
                   dragStateRef, pageViewport, isDownloading, isParsing,
                   load, exports>>


(***************************************************************************)
(* Drawing tool: the exports                                               *)
(*                                                                         *)
(* An export handler is an async function: it runs to its first await when *)
(* the menu item is clicked and is resumed, one await at a time, by the    *)
(* steps below.  The originalPdf, originalFilename and redactions it reads *)
(* are the constants of the render in which the handler was created, so    *)
(* they are kept in the handler's record:                                  *)
(*   [mode, pc, originalPdf, originalFilename, redactions, i, painted,     *)
(*    pages]                                                               *)
(* i is the page loop's index, painted the regions filled on the canvas of *)
(* page i, pages the pages of the output document, each                    *)
(* [source, size, painted].                                                *)
(***************************************************************************)

\* The Download button and its two menu items are enabled.
DownloadEnabled ==
    /\ pdfDocument # NoDocument
    /\ originalPdf # NoDocument
    /\ redactions # <<>>
    /\ isDownloading = "null"

\* String.prototype.lastIndexOf('.'), 0-based, -1 when there is no dot.
lastIndexOfDot(name) ==
    IF \E k \in 1..Len(name) : name[k] = "."
    THEN SetMax({k \in 1..Len(name) : name[k] = "."}) - 1
    ELSE -1

\* getRedactedFilename(suffix) in a render whose originalFilename is name.
\* A file name is the sequence of its pieces: the characters of
\* originalFilename and the literal parts of the templates.
getRedactedFilename(name, suffix) ==
    IF name = <<>>
    THEN <<"redacted-document-", suffix, ".pdf">>
    ELSE LET lastDot == lastIndexOfDot(name)
         IN IF lastDot = -1
            THEN name \o <<" (Redacted).pdf">>
            ELSE SubSeq(name, 1, lastDot) \o <<" (Redacted)">>
                     \o SubSeq(name, lastDot + 1, Len(name))

\* The handler started in the current render, suspended at its first await.
NewExport(mode, pc) ==
    [ mode |-> mode, pc |-> pc, originalPdf |-> originalPdf,
      originalFilename |-> originalFilename,
      redactions |-> redactions, i |-> 0, painted |-> <<>>, pages |-> <<>> ]

\* handleDownloadRecoverable up to "await PDFDocument.load(...)".
StartRecoverable ==
    /\ DownloadEnabled
    /\ Len(exports) < MaxExports
    /\ isDownloading' = "recoverable"
    /\ exports' = Append(exports, NewExport("recoverable", "load"))
    /\ download' = NoDownload
    /\ toast' = ""
    /\ UNCHANGED <<originalPdf, pdfDocument, redactions, currentPageNumber,
                   isDrawing, dragStateRef, pageViewport, isParsing, load>>

\* handleDownloadSecure up to "await PDFDocument.create()".
StartSecure ==
    /\ DownloadEnabled
    /\ Len(exports) < MaxExports
    /\ isDownloading' = "flattened"
    /\ exports' = Append(exports, NewExport("flattened", "open"))
    /\ download' = NoDownload
    /\ toast' = ""
    /\ UNCHANGED <<originalPdf, pdfDocument, redactions, currentPageNumber,
                   isDrawing, dragStateRef, pageViewport, isParsing, load>>

\* The catch and finally blocks of export k: the toast, setIsDownloading(null).
ExportFails(k, message) ==
    /\ toast' = message
    /\ isDownloading' = "null"
    /\ exports' = RemoveAt(exports, k)
    /\ download' = NoDownload
    /\ UNCHANGED <<originalPdf, pdfDocument, redactions, currentPageNumber,
                   isDrawing, dragStateRef, pageViewport, isParsing, load>>

\* "await pdfDoc.save()" resolved in export k: downloadPdf, the toast and the
\* finally block.
ExportSaved(k, suffix, message) ==
    /\ download' = [ mode |-> exports[k].mode,
                     filename |-> getRedactedFilename(exports[k].originalFilename, suffix),
                     source |-> exports[k].originalPdf,
                     pages |-> exports[k].pages ]
    /\ toast' = message
    /\ isDownloading' = "null"
    /\ exports' = RemoveAt(exports, k)
    /\ UNCHANGED <<originalPdf, pdfDocument, redactions, currentPageNumber,
                   isDrawing, dragStateRef, pageViewport, isParsing, load>>

\* Export k moves on, changing nothing but its own record.
ExportContinues(k, e) ==
    /\ exports' = [exports EXCEPT ![k] = e]
    /\ download' = NoDownload
    /\ toast' = ""
    /\ UNCHANGED <<originalPdf, pdfDocument, redactions, currentPageNumber,
                   isDrawing, dragStateRef, pageViewport, isDownloading,
                   isParsing, load>>

\* applyRedactionsToPdf drawing every region on the first page instead.
DrawnOnFirstPage(e, pageIndex) ==
    IF pageIndex = 0 THEN e.redactions ELSE <<>>

\* applyRedactionsToPdf: the rectangles drawn on the page with index
\* pageIndex of a document of numPages pages, read from the handler's list.
DrawnOnPage(e, pageIndex) ==
    SelectSeq(e.redactions,
              LAMBDA r : r.pageIndex < e.originalPdf.numPages
                         /\ r.pageIndex = pageIndex)

\* "await PDFDocument.load(...)" settled in recoverable export k; when it
\* resolved, applyRedactionsToPdf runs and pdfDoc.save() is awaited.
RecoverableLoad(k, outcome) ==
    /\ k \in 1..Len(exports)
    /\ exports[k].mode = "recoverable"
    /\ exports[k].pc = "load"
    /\ CASE outcome = "resolved" ->
              ExportContinues(k,
                  [exports[k] EXCEPT
                      !.pc = "save",
                      !.pages = [n \in 1..exports[k].originalPdf.numPages |->
                                    [ source |-> n - 1,
                                      size |-> SourcePageSize,
                                      painted |-> DrawnOnPage(exports[k], n - 1) ]]])
         [] outcome = "EncryptedPDFError" ->
              ExportFails(k, "Encrypted PDF: cannot be modified")
         [] OTHER ->
              ExportFails(k, "Download Error: recoverable")

\* "await pdfDoc.save()" settled in recoverable export k.
RecoverableSave(k, resolved) ==
    /\ k \in 1..Len(exports)
    /\ exports[k].mode = "recoverable"
    /\ exports[k].pc = "save"
    /\ IF resolved
       THEN ExportSaved(k, "recoverable", "Download Ready: recoverable")
       ELSE ExportFails(k, "Download Error: recoverable")

\* "await PDFDocument.create()" and "await getDocument(...).promise" settled
\* in secure export k.
SecureOpen(k, resolved) ==
    /\ k \in 1..Len(exports)
    /\ exports[k].mode = "flattened"
    /\ exports[k].pc = "open"
    /\ IF resolved
       THEN ExportContinues(k,
                [exports[k] EXCEPT
                    !.pc = IF exports[k].originalPdf.numPages = 0 THEN "save"
                           ELSE "page"])
       ELSE ExportFails(k, "Download Error: secure")

\* "redactions.filter(r => r.pageIndex === i)", the regions filled on the
\* canvas of page i, read from the handler's list.
PageRedactionsLive(e) ==
    SelectSeq(redactions, LAMBDA r : r.pageIndex = e.i)
\* The filter keeping only the region of page i drawn last.
PageRedactionsLastWins(e) ==
    LET all == SelectSeq(e.redactions, LAMBDA r : r.pageIndex = e.i)
    IN IF all = <<>> THEN <<>> ELSE <<all[Len(all)]>>

PageRedactions(e) ==
    SelectSeq(e.redactions, LAMBDA r : r.pageIndex = e.i)

\* The page loop of export e goes on to page i + 1, or ends and
\* newPdfDoc.save() is awaited.
NextPageOf(e) ==
    [e EXCEPT !.i = e.i + 1,
              !.painted = <<>>,
              !.pc = IF e.i + 1 < e.originalPdf.numPages THEN "page" ELSE "save"]

\* Page i of secure export k: getPage resolved and either getContext('2d')
\* gave no context ("continue"), or page.render(...) settled; when it
\* resolved the page's regions are filled and canvas.toBlob is awaited.
SecureRenderPage(k, outcome) ==
    /\ k \in 1..Len(exports)
    /\ exports[k].mode = "flattened"
    /\ exports[k].pc = "page"
    /\ CASE outcome = "no context" ->
              ExportContinues(k, NextPageOf(exports[k]))
         [] outcome = "rendered" ->
              ExportContinues(k,
                  [exports[k] EXCEPT !.pc = "blob",
                                     !.painted = PageRedactions(exports[k])])
         [] OTHER ->
              ExportFails(k, "Download Error: secure")

\* Page i of secure export k: toBlob called back, with no blob (no bytes, the
\* page is not added) or with a blob that embedPng takes (the page is added)
\* or rejects.
SecureEncodePage(k, outcome) ==
    /\ k \in 1..Len(exports)
    /\ exports[k].mode = "flattened"
    /\ exports[k].pc = "blob"
    /\ CASE outcome = "no blob" ->
              ExportContinues(k, NextPageOf(exports[k]))
         [] outcome = "embedded" ->
              ExportContinues(k,
                  NextPageOf([exports[k] EXCEPT
                      !.pages = Append(exports[k].pages,
                                       [ source |-> exports[k].i,
                                         size |-> addPageSize,
                                         painted |-> exports[k].painted ])]))
         [] OTHER ->
              ExportFails(k, "Download Error: secure")

\* "await newPdfDoc.save()" settled in secure export k.
SecureSave(k, resolved) ==
    /\ k \in 1..Len(exports)
    /\ exports[k].mode = "flattened"
    /\ exports[k].pc = "save"
    /\ IF resolved
       THEN ExportSaved(k, "secure", "Download Ready: secure")
       ELSE ExportFails(k, "Download Error: secure")

(***************************************************************************)
(* Drawing tool: the specification                                         *)
(***************************************************************************)

Init ==
    /\ ToolIdle
    /\ pdfTextItems = <<>>
    /\ term = <<>>
    /\ results = <<>>
    /\ searched = FALSE

Next ==
    \/ UploadInvalidType /\ UNCHANGED <<matchVars, renderVars, drawVars, annotVars, termVars, nameVars, historyVars>>
    \/ \E n \in 1..MaxPages : StartUpload(n) /\ UNCHANGED <<matchVars, renderVars, drawVars, annotVars, termVars, historyVars>>
    \/ ReaderError /\ UNCHANGED <<matchVars, renderVars, drawVars, annotVars, termVars, nameVars, historyVars>>
    \/ LoadParsed /\ UNCHANGED <<matchVars, renderVars, drawVars, annotVars, termVars, nameVars, historyVars>>
    \/ LoadFinished /\ UNCHANGED <<matchVars, renderVars, drawVars, annotVars, termVars, nameVars, historyVars>>
    \/ \E passwordException \in BOOLEAN :
          LoadFailed(passwordException) /\ UNCHANGED <<matchVars, renderVars, drawVars, annotVars, termVars, historyVars>>
    \/ Reset /\ UNCHANGED <<matchVars, renderVars, drawVars, annotVars, termVars, historyVars>>
    \/ PrevPage /\ UNCHANGED <<matchVars, renderVars, drawVars, annotVars, termVars, nameVars, historyVars>>
    \/ NextPage /\ UNCHANGED <<matchVars, renderVars, drawVars, annotVars, termVars, nameVars, historyVars>>
    \/ RenderCurrentPage /\ UNCHANGED <<matchVars, renderVars, drawVars, annotVars, termVars, nameVars, historyVars>>
    \/ \E p \in DragStarts : MouseDown(p) /\ UNCHANGED <<matchVars, renderVars, drawVars, annotVars, termVars, nameVars, historyVars>>
    \/ \E p \in DragEnds : MouseUp(p) /\ UNCHANGED <<matchVars, renderVars, drawVars, annotVars, termVars, nameVars, historyVars>>
    \/ Undo /\ UNCHANGED <<matchVars, renderVars, drawVars, annotVars, termVars, nameVars, historyVars>>
    \/ ClearAll /\ UNCHANGED <<matchVars, renderVars, drawVars, annotVars, termVars, nameVars, historyVars>>
    \/ \E k \in 1..MaxRedactions : RemoveSingleRedaction(k) /\ UNCHANGED <<matchVars, renderVars, drawVars, annotVars, termVars, nameVars, historyVars>>
    \/ StartRecoverable /\ UNCHANGED <<matchVars, renderVars, drawVars, annotVars, termVars, nameVars, historyVars>>
    \/ StartSecure /\ UNCHANGED <<matchVars, renderVars, drawVars, annotVars, termVars, nameVars, historyVars>>
    \/ \E k \in 1..MaxExports :
          \E outcome \in {"resolved", "EncryptedPDFError", "rejected"} :
              RecoverableLoad(k, outcome) /\ UNCHANGED <<matchVars, renderVars, drawVars, annotVars, termVars, nameVars, historyVars>>
    \/ \E k \in 1..MaxExports : \E resolved \in BOOLEAN :
          RecoverableSave(k, resolved) /\ UNCHANGED <<matchVars, renderVars, drawVars, annotVars, termVars, nameVars, historyVars>>
    \/ \E k \in 1..MaxExports : \E resolved \in BOOLEAN :
          SecureOpen(k, resolved) /\ UNCHANGED <<matchVars, renderVars, drawVars, annotVars, termVars, nameVars, historyVars>>
    \/ \E k \in 1..MaxExports :
          \E outcome \in {"no context", "rendered", "rejected"} :
              SecureRenderPage(k, outcome) /\ UNCHANGED <<matchVars, renderVars, drawVars, annotVars, termVars, nameVars, historyVars>>
    \/ \E k \in 1..MaxExports :
          \E outcome \in {"no blob", "embedded", "rejected"} :
              SecureEncodePage(k, outcome) /\ UNCHANGED <<matchVars, renderVars, drawVars, annotVars, termVars, nameVars, historyVars>>
    \/ \E k \in 1..MaxExports : \E resolved \in BOOLEAN :
          SecureSave(k, resolved) /\ UNCHANGED <<matchVars, renderVars, drawVars, annotVars, termVars, nameVars, historyVars>>

Spec == Init /\ [][Next]_vars

(***************************************************************************)
(* Drawing tool: one export at a time                                      *)
(*                                                                         *)
(* The same steps, a Download being clicked only when no earlier export is *)
(* still suspended: one export followed from its start to its end while    *)
(* the user goes on editing, resetting and uploading.                      *)
(***************************************************************************)

NextExport ==
    \/ UploadInvalidType /\ UNCHANGED <<matchVars, renderVars, drawVars, annotVars, termVars, nameVars, historyVars>>
    \/ \E n \in 1..MaxPages : StartUpload(n) /\ UNCHANGED <<matchVars, renderVars, drawVars, annotVars, termVars, historyVars>>
    \/ ReaderError /\ UNCHANGED <<matchVars, renderVars, drawVars, annotVars, termVars, nameVars, historyVars>>
    \/ LoadParsed /\ UNCHANGED <<matchVars, renderVars, drawVars, annotVars, termVars, nameVars, historyVars>>
    \/ LoadFinished /\ UNCHANGED <<matchVars, renderVars, drawVars, annotVars, termVars, nameVars, historyVars>>
    \/ \E passwordException \in BOOLEAN :
          LoadFailed(passwordException) /\ UNCHANGED <<matchVars, renderVars, drawVars, annotVars, termVars, historyVars>>
    \/ Reset /\ UNCHANGED <<matchVars, renderVars, drawVars, annotVars, termVars, historyVars>>
    \/ PrevPage /\ UNCHANGED <<matchVars, renderVars, drawVars, annotVars, termVars, nameVars, historyVars>>
    \/ NextPage /\ UNCHANGED <<matchVars, renderVars, drawVars, annotVars, termVars, nameVars, historyVars>>
    \/ RenderCurrentPage /\ UNCHANGED <<matchVars, renderVars, drawVars, annotVars, termVars, nameVars, historyVars>>
    \/ \E p \in DragStarts : MouseDown(p) /\ UNCHANGED <<matchVars, renderVars, drawVars, annotVars, termVars, nameVars, historyVars>>
    \/ \E p \in DragEnds : MouseUp(p) /\ UNCHANGED <<matchVars, renderVars, drawVars, annotVars, termVars, nameVars, historyVars>>
    \/ Undo /\ UNCHANGED <<matchVars, renderVars, drawVars, annotVars, termVars, nameVars, historyVars>>
    \/ ClearAll /\ UNCHANGED <<matchVars, renderVars, drawVars, annotVars, termVars, nameVars, historyVars>>
    \/ \E k \in 1..MaxRedactions : RemoveSingleRedaction(k) /\ UNCHANGED <<matchVars, renderVars, drawVars, annotVars, termVars, nameVars, historyVars>>
    \/ exports = <<>> /\ StartRecoverable /\ UNCHANGED <<matchVars, renderVars, drawVars, annotVars, termVars, nameVars, historyVars>>
    \/ exports = <<>> /\ StartSecure /\ UNCHANGED <<matchVars, renderVars, drawVars, annotVars, termVars, nameVars, historyVars>>
    \/ \E k \in 1..MaxExports :
          \E outcome \in {"resolved", "EncryptedPDFError", "rejected"} :
              RecoverableLoad(k, outcome) /\ UNCHANGED <<matchVars, renderVars, drawVars, annotVars, termVars, nameVars, historyVars>>
    \/ \E k \in 1..MaxExports : \E resolved \in BOOLEAN :
          RecoverableSave(k, resolved) /\ UNCHANGED <<matchVars, renderVars, drawVars, annotVars, termVars, nameVars, historyVars>>
    \/ \E k \in 1..MaxExports : \E resolved \in BOOLEAN :
          SecureOpen(k, resolved) /\ UNCHANGED <<matchVars, renderVars, drawVars, annotVars, termVars, nameVars, historyVars>>
    \/ \E k \in 1..MaxExports :
          \E outcome \in {"no context", "rendered", "rejected"} :
              SecureRenderPage(k, outcome) /\ UNCHANGED <<matchVars, renderVars, drawVars, annotVars, termVars, nameVars, historyVars>>
    \/ \E k \in 1..MaxExports :
          \E outcome \in {"no blob", "embedded", "rejected"} :
              SecureEncodePage(k, outcome) /\ UNCHANGED <<matchVars, renderVars, drawVars, annotVars, termVars, nameVars, historyVars>>
    \/ \E k \in 1..MaxExports : \E resolved \in BOOLEAN :
          SecureSave(k, resolved) /\ UNCHANGED <<matchVars, renderVars, drawVars, annotVars, termVars, nameVars, historyVars>>

SpecExport == Init /\ [][NextExport]_vars

(***************************************************************************)
(* Drawing tool: renderPage, one await at a time                           *)
(*                                                                         *)
(* A renderPage call in progress is [id, pageNum, pc]: pc is "getPage" or  *)
(* "getOCC" while the call is suspended at that await and "rendering"      *)
(* while the render task it created runs on the canvas.  id is the         *)
(* identity of the call's render task, which renderTaskRef holds; 0 stands *)
(* for null.                                                               *)
(***************************************************************************)

\* The most renderPage calls in progress at the same time.
MaxRenders == 3

\* The identity of a newly created call and of its render task.
FreshRender ==
    CHOOSE i \in 1..(MaxRenders + 1) :
        /\ i # renderTaskRef
        /\ \A k \in 1..Len(renders) : renders[k].id # i

\* The render tasks running on the canvas.
Rendering == {k \in 1..Len(renders) : renders[k].pc = "rendering"}

\* renderPage(pageNum) up to "await pdfDocument.getPage(pageNum)": the task
\* in renderTaskRef is cancelled (its rejection ends in the empty catch) and
\* the ref is cleared.
renderPage(pageNum) ==
    /\ Len(renders) < MaxRenders
    /\ renders' = Append(SelectSeq(renders,
                                   LAMBDA c : ~(c.pc = "rendering"
                                                /\ c.id = renderTaskRef)),
                         [id |-> FreshRender, pageNum |-> pageNum, pc |-> "getPage"])
    /\ renderTaskRef' = 0
    /\ UNCHANGED canvas

\* The effect on [pdfDocument, currentPageNumber, renderPage, ...] after the
\* render in which the document was installed.
LoadParsedRendered == LoadParsed /\ renderPage(currentPageNumber')

\* scanForOptionalContent stored a new optionalContentGroups array, so
\* renderPage is a new callback and the effect runs it again.
LoadFinishedRendered == LoadFinished /\ renderPage(currentPageNumber)

\* The effect after the page shown changed.
PrevPageRendered == PrevPage /\ renderPage(currentPageNumber')
NextPageRendered == NextPage /\ renderPage(currentPageNumber')

\* A step of call k that leaves the component's other state alone.
RenderStep ==
    /\ download' = NoDownload
    /\ toast' = ""
    /\ UNCHANGED <<originalPdf, pdfDocument, redactions, currentPageNumber,
                   isDrawing, dragStateRef, isDownloading, isParsing, load,
                   exports>>

\* "await pdfDocument.getPage(pageNum)" settled in call k: when it resolved
\* the viewport is stored, the canvas is sized, which clears it, and
\* getOptionalContentConfig is awaited.
RenderGetPage(k, resolved) ==
    /\ k \in 1..Len(renders)
    /\ renders[k].pc = "getPage"
    /\ IF resolved
       THEN /\ pageViewport' = Viewport
            /\ canvas' = 0
            /\ renders' = [renders EXCEPT ![k].pc = "getOCC"]
       ELSE /\ renders' = RemoveAt(renders, k)
            /\ UNCHANGED <<pageViewport, canvas>>
    /\ UNCHANGED renderTaskRef
    /\ RenderStep

\* "await pdfDocument.getOptionalContentConfig()" settled in call k: when it
\* resolved page.render creates the task and the task is stored in
\* renderTaskRef.  pdf.js refuses a canvas another task is running on: the
\* new task is rejected at once, and the rejection ends in the empty catch.
RenderGetOCC(k, resolved) ==
    /\ k \in 1..Len(renders)
    /\ renders[k].pc = "getOCC"
    /\ IF ~resolved
       THEN /\ renders' = RemoveAt(renders, k)
            /\ UNCHANGED renderTaskRef
       ELSE /\ renderTaskRef' = renders[k].id
            /\ IF Rendering # {}
               THEN renders' = RemoveAt(renders, k)
               ELSE renders' = [renders EXCEPT ![k].pc = "rendering"]
    /\ UNCHANGED <<pageViewport, canvas>>
    /\ RenderStep

\* The render task of call k painted its page to the end.
RenderTaskDone(k) ==
    /\ k \in 1..Len(renders)
    /\ renders[k].pc = "rendering"
    /\ canvas' = renders[k].pageNum
    /\ renders' = RemoveAt(renders, k)
    /\ UNCHANGED <<pageViewport, renderTaskRef>>
    /\ RenderStep

\* The history of the stored viewport: the page number call k asked getPage
\* for, when the call stores its viewport.
RecordViewport(k, resolved) ==
    viewportPage' = IF resolved THEN renders[k].pageNum ELSE viewportPage

NextRender ==
    \/ \E n \in 1..MaxPages : StartUpload(n) /\ UNCHANGED <<matchVars, renderVars, drawVars, annotVars, termVars, historyVars>>
    \/ LoadParsedRendered /\ UNCHANGED <<matchVars, drawVars, annotVars, termVars, nameVars, historyVars>>
    \/ LoadFinishedRendered /\ UNCHANGED <<matchVars, drawVars, annotVars, termVars, nameVars, historyVars>>
    \/ PrevPageRendered /\ UNCHANGED <<matchVars, drawVars, annotVars, termVars, nameVars, historyVars>>
    \/ NextPageRendered /\ UNCHANGED <<matchVars, drawVars, annotVars, termVars, nameVars, historyVars>>
    \/ \E k \in 1..MaxRenders : \E resolved \in BOOLEAN :
          RenderGetPage(k, resolved) /\ RecordViewport(k, resolved) /\ UNCHANGED <<matchVars, drawVars, annotVars, termVars, nameVars, insertionOrder>>
    \/ \E k \in 1..MaxRenders : \E resolved \in BOOLEAN :
          RenderGetOCC(k, resolved) /\ UNCHANGED <<matchVars, drawVars, annotVars, termVars, nameVars, historyVars>>
    \/ \E k \in 1..MaxRenders : RenderTaskDone(k) /\ UNCHANGED <<matchVars, drawVars, annotVars, termVars, nameVars, historyVars>>

SpecRender == Init /\ [][NextRender]_vars


(***************************************************************************)
(* Drawing tool, earlier revision (part_004): drawing a region             *)
(*                                                                         *)
(* The drag is kept in state: handleMouseMove stores its rectangle in      *)
(* currentDrawing, and handleMouseUp, an async function, turns the         *)
(* rectangle of the render in which it was created into a region after     *)
(* "await pdfDocument.getPage(currentPageNumber)".  A suspended call is    *)
(* [currentDrawing, currentPageNumber].                                    *)
(***************************************************************************)

\* The most handleMouseUp calls suspended at the same time.
MaxMouseUps == 2

\* The points (screen pixels) the mouse is moved to during a drag.
MovePoints == { <<20, 40>>, <<22, 42>>, <<27, 40>>, <<0, 0>> }

\* The canvas after renderPage: "canvas.height = viewport.height;
\* canvas.width = viewport.width".
EarlierCanvas == [width |-> Viewport.width, height |-> Viewport.height]

\* A document is shown and its first page is rendered.
InitEarlier ==
    /\ \E n \in 1..MaxPages :
          /\ originalPdf = Document(n)
          /\ pdfDocument = Document(n)
    /\ redactions = <<>>
    /\ currentPageNumber = 1
    /\ isDrawing = FALSE
    /\ dragStateRef = <<0, 0>>
    /\ pageViewport = NoViewport
    /\ isDownloading = "null"
    /\ isParsing = FALSE
    /\ load = NoLoad
    /\ exports = <<>>
    /\ download = NoDownload
    /\ toast = ""
    /\ renders = <<>>
    /\ renderTaskRef = 0
    /\ canvas = 1
    /\ drawStartPoint = NoPoint
    /\ currentDrawing = NoDrawing
    /\ mouseUps = <<>>
    /\ AnnotationsIdle
    /\ TermsIdle
    /\ originalFilename = <<>>
    /\ insertionOrder = <<>>
    /\ viewportPage = 0
    /\ pdfTextItems = <<>>
    /\ term = <<>>
    /\ results = <<>>
    /\ searched = FALSE

\* A step of the earlier revision's drawing leaves these alone.
EarlierStep ==
    UNCHANGED <<originalPdf, pdfDocument, currentPageNumber, dragStateRef,
                pageViewport, isDownloading, isParsing, load, exports,
                download, toast>>

\* handleMouseDown at screen point p.
EarlierMouseDown(p) ==
    /\ pdfDocument # NoDocument
    /\ Len(redactions) < MaxRedactions
    /\ isDrawing' = TRUE
    /\ drawStartPoint' = p
    /\ UNCHANGED <<redactions, currentDrawing, mouseUps>>
    /\ EarlierStep

\* handleMouseMove at screen point p.
EarlierMouseMove(p) ==
    /\ isDrawing
    /\ drawStartPoint # NoPoint
    /\ currentDrawing' = [ x |-> Min(drawStartPoint[1], p[1]),
                           y |-> Min(drawStartPoint[2], p[2]),
                           width |-> Abs(p[1] - drawStartPoint[1]),
                           height |-> Abs(p[2] - drawStartPoint[2]) ]
    /\ UNCHANGED <<redactions, isDrawing, drawStartPoint, mouseUps>>
    /\ EarlierStep

\* handleMouseUp (on mouse up and on mouse leave) up to
\* "await pdfDocument.getPage(currentPageNumber)".
EarlierMouseUp ==
    /\ isDrawing
    /\ currentDrawing # NoDrawing
    /\ pdfDocument # NoDocument
    /\ Len(mouseUps) < MaxMouseUps
    /\ mouseUps' = Append(mouseUps, [ currentDrawing |-> currentDrawing,
                                      currentPageNumber |-> currentPageNumber ])
    /\ UNCHANGED <<redactions, isDrawing, drawStartPoint, currentDrawing>>
    /\ EarlierStep

\* pdfCoords of suspended call c: the rectangle divided by scaleX and scaleY,
\* the ratios of the canvas to the viewport at scale 2.0, in 1/RenderScale
\* of a page unit.
pdfCoords(c) ==
    LET renderViewport == Viewport
        d == c.currentDrawing
    IN [ x |-> (d.x * RenderScale * renderViewport.width) \div EarlierCanvas.width,
         y |-> ((EarlierCanvas.height - (d.y + d.height)) * RenderScale
                   * renderViewport.height) \div EarlierCanvas.height,
         width |-> (d.width * RenderScale * renderViewport.width)
                      \div EarlierCanvas.width,
         height |-> (d.height * RenderScale * renderViewport.height)
                       \div EarlierCanvas.height ]

\* "await pdfDocument.getPage(currentPageNumber)" settled in suspended call
\* k: when it resolved the region is appended and the drag is ended.
EarlierMouseUpResumes(k, resolved) ==
    /\ k \in 1..Len(mouseUps)
    /\ mouseUps' = RemoveAt(mouseUps, k)
    /\ IF resolved
       THEN /\ redactions' =
                  Append(redactions,
                         [ id |-> FreshId,
                           pageIndex |-> mouseUps[k].currentPageNumber - 1,
                           x |-> pdfCoords(mouseUps[k]).x,
                           y |-> pdfCoords(mouseUps[k]).y,
                           width |-> pdfCoords(mouseUps[k]).width,
                           height |-> pdfCoords(mouseUps[k]).height ])
            /\ isDrawing' = FALSE
            /\ drawStartPoint' = NoPoint
            /\ currentDrawing' = NoDrawing
       ELSE UNCHANGED <<redactions, isDrawing, drawStartPoint, currentDrawing>>
    /\ EarlierStep

\* The Clear All button: setRedactions([]).
EarlierClearAll ==
    /\ pdfDocument # NoDocument
    /\ redactions # <<>>
    /\ redactions' = <<>>
    /\ UNCHANGED <<isDrawing, drawStartPoint, currentDrawing, mouseUps>>
    /\ EarlierStep

\* The previous-page and next-page buttons.
EarlierTurnPage(pageNum) ==
    /\ pdfDocument # NoDocument
    /\ pageNum \in 1..totalPages
    /\ pageNum \in {currentPageNumber - 1, currentPageNumber + 1}
    /\ currentPageNumber' = pageNum
    /\ UNCHANGED <<originalPdf, pdfDocument, dragStateRef, pageViewport,
                   isDownloading, isParsing, load, exports, download, toast>>
    /\ UNCHANGED <<redactions, isDrawing, drawStartPoint, currentDrawing, mouseUps>>

\* The rectangle renderPage and handleDownloadSecure fill on the canvas for
\* region r, in pixels: x * scale, height - (y + height) * scale,
\* width * scale, height * scale.
canvasRect(r) ==
    [ x |-> (r.x * Viewport.scale) \div RenderScale,
      y |-> Viewport.height - ((r.y + r.height) * Viewport.scale) \div RenderScale,
      width |-> (r.width * Viewport.scale) \div RenderScale,
      height |-> (r.height * Viewport.scale) \div RenderScale ]

\* handleDownloadRecoverable of the earlier revision, "await
\* PDFDocument.load(...)" settled in export k: its catch block has one
\* message for every error.
EarlierRecoverableLoad(k, outcome) ==
    /\ k \in 1..Len(exports)
    /\ exports[k].mode = "recoverable"
    /\ exports[k].pc = "load"
    /\ IF outcome = "resolved"
       THEN ExportContinues(k,
                [exports[k] EXCEPT
                    !.pc = "save",
                    !.pages = [n \in 1..exports[k].originalPdf.numPages |->
                                  [ source |-> n - 1,
                                    size |-> SourcePageSize,
                                    painted |-> DrawnOnPage(exports[k], n - 1) ]]])
       ELSE ExportFails(k, "Download Error: recoverable")

\* "await pdfDoc.save()" settled in export k of the earlier revision.
EarlierRecoverableSave(k, resolved) ==
    /\ k \in 1..Len(exports)
    /\ exports[k].mode = "recoverable"
    /\ exports[k].pc = "save"
    /\ IF resolved
       THEN /\ download' = [ mode |-> "recoverable",
                             filename |-> <<"redacted-document-", "recoverable", ".pdf">>,
                             source |-> exports[k].originalPdf,
                             pages |-> exports[k].pages ]
            /\ toast' = "Download Ready: recoverable"
            /\ isDownloading' = "null"
            /\ exports' = RemoveAt(exports, k)
            /\ UNCHANGED <<originalPdf, pdfDocument, redactions,
                           currentPageNumber, isDrawing, dragStateRef,
                           pageViewport, isParsing, load>>
       ELSE ExportFails(k, "Download Error: recoverable")

NextEarlier ==
    \/ \E p \in DragStarts :
          EarlierMouseDown(p) /\ UNCHANGED <<matchVars, renderVars, annotVars, termVars, nameVars, historyVars>>
    \/ \E p \in MovePoints :
          EarlierMouseMove(p) /\ UNCHANGED <<matchVars, renderVars, annotVars, termVars, nameVars, historyVars>>
    \/ EarlierMouseUp /\ UNCHANGED <<matchVars, renderVars, annotVars, termVars, nameVars, historyVars>>
    \/ \E k \in 1..MaxMouseUps : \E resolved \in BOOLEAN :
          EarlierMouseUpResumes(k, resolved) /\ UNCHANGED <<matchVars, renderVars, annotVars, termVars, nameVars, historyVars>>
    \/ EarlierClearAll /\ UNCHANGED <<matchVars, renderVars, annotVars, termVars, nameVars, historyVars>>
    \/ \E pageNum \in 1..MaxPages :
          EarlierTurnPage(pageNum) /\ UNCHANGED <<matchVars, renderVars, annotVars, termVars, nameVars, historyVars>>
    \/ exports = <<>> /\ StartRecoverable /\ UNCHANGED <<matchVars, renderVars, drawVars, annotVars, termVars, nameVars, historyVars>>
    \/ \E outcome \in {"resolved", "EncryptedPDFError", "rejected"} :
          EarlierRecoverableLoad(1, outcome) /\ UNCHANGED <<matchVars, renderVars, drawVars, annotVars, termVars, nameVars, historyVars>>
    \/ \E resolved \in BOOLEAN :
          EarlierRecoverableSave(1, resolved) /\ UNCHANGED <<matchVars, renderVars, drawVars, annotVars, termVars, nameVars, historyVars>>

SpecEarlier == InitEarlier /\ [][NextEarlier]_vars

(***************************************************************************)
(* Drawing tool: annotations                                               *)
(*                                                                         *)
(* Here a document also says which of its pages carry an annotation:       *)
(* [numPages, annots].  allAnnotations holds, for each annotation found,   *)
(* the 1-based number of its page, which is all the navigation reads.      *)
(* handleRemoveAnnotations is an async function; the originalPdf it reads  *)
(* is the constant of the render in which it was created, kept in the      *)
(* record of the suspended call: [pc, originalPdf, pdf].                   *)
(***************************************************************************)

AnnotatedDocument(n, pages) == [numPages |-> n, annots |-> pages]

\* The list scanForAnnotations(pdf) hands to setAllAnnotations: the pages
\* are visited in order.
RECURSIVE PagesInOrder(_)
PagesInOrder(pages) ==
    IF pages = {} THEN <<>>
    ELSE <<SetMin(pages)>> \o PagesInOrder(pages \ {SetMin(pages)})

scanForAnnotations(pdf) == PagesInOrder(pdf.annots)

\* The annotation state handleReset clears.
handleResetAnnotations ==
    /\ allAnnotations' = <<>>
    /\ isHighlightingAnnotations' = FALSE
    /\ currentAnnotationIndex' = -1

\* handleFileUpload with a PDF of n pages whose pages in "pages" carry an
\* annotation, up to reader.readAsArrayBuffer.
UploadAnnotated(n, pages) ==
    /\ UploadAreaShown
    /\ handleReset
    /\ handleResetAnnotations
    /\ isParsing' = TRUE
    /\ originalFilename' = UploadedName
    /\ load' = [pc |-> "reading", file |-> AnnotatedDocument(n, pages)]
    /\ download' = NoDownload
    /\ toast' = ""
    /\ UNCHANGED <<isDrawing, dragStateRef, pageViewport, exports,
                   isProcessingAnnotations, removal>>

\* reader.onload from the end of scanForAnnotations, which stores the list
\* it built, to the end of the handler.
LoadFinishedScanned ==
    /\ LoadFinished
    /\ allAnnotations' = scanForAnnotations(load.file)
    /\ UNCHANGED <<currentAnnotationIndex, isHighlightingAnnotations,
                   isProcessingAnnotations, removal>>

\* A step that changes the page shown and nothing else of the tool.
AnnotationStep ==
    /\ download' = NoDownload
    /\ UNCHANGED <<originalPdf, pdfDocument, redactions, isDrawing,
                   dragStateRef, pageViewport, isDownloading, isParsing,
                   load, exports, isProcessingAnnotations, removal,
                   allAnnotations>>

\* The Highlight Annotations switch, shown while the list is not empty.
handleHighlightToggle(checked) ==
    /\ pdfDocument # NoDocument
    /\ allAnnotations # <<>>
    /\ checked # isHighlightingAnnotations
    /\ isHighlightingAnnotations' = checked
    /\ IF checked
       THEN /\ currentAnnotationIndex' = 0
            /\ currentPageNumber' = allAnnotations[1]
            /\ toast' = "Navigated to Annotation"
       ELSE /\ currentAnnotationIndex' = -1
            /\ currentPageNumber' = currentPageNumber
            /\ toast' = ""
    /\ AnnotationStep

\* The next and previous buttons are shown while highlighting and enabled
\* while the list has more than one annotation.
AnnotationButtonsEnabled ==
    /\ pdfDocument # NoDocument
    /\ isHighlightingAnnotations
    /\ Len(allAnnotations) > 1

\* The next-annotation button.
handleNextAnnotation ==
    /\ AnnotationButtonsEnabled
    /\ LET nextIndex == (currentAnnotationIndex + 1) % Len(allAnnotations)
       IN /\ currentAnnotationIndex' = nextIndex
          /\ currentPageNumber' = allAnnotations[nextIndex + 1]
    /\ toast' = ""
    /\ UNCHANGED isHighlightingAnnotations
    /\ AnnotationStep

\* The previous-annotation button.
handlePrevAnnotation ==
    /\ AnnotationButtonsEnabled
    /\ LET prevIndex == (currentAnnotationIndex - 1 + Len(allAnnotations))
                            % Len(allAnnotations)
       IN /\ currentAnnotationIndex' = prevIndex
          /\ currentPageNumber' = allAnnotations[prevIndex + 1]
    /\ toast' = ""
    /\ UNCHANGED isHighlightingAnnotations
    /\ AnnotationStep

\* A step of handleRemoveAnnotations that changes the document and the
\* region list at most.
RemovalStep ==
    /\ download' = NoDownload
    /\ UNCHANGED <<isDrawing, dragStateRef, pageViewport, isDownloading,
                   isParsing, load, exports, isHighlightingAnnotations>>

\* handleRemoveAnnotations up to "await PDFDocument.load".
RemoveAnnotationsStart ==
    /\ pdfDocument # NoDocument
    /\ ~isProcessingAnnotations
    /\ isDownloading = "null"
    /\ allAnnotations # <<>>
    /\ originalPdf # NoDocument
    /\ isProcessingAnnotations' = TRUE
    /\ removal' = [pc |-> "load", originalPdf |-> originalPdf, pdf |-> NoDocument]
    /\ toast' = ""
    /\ RemovalStep
    /\ UNCHANGED <<originalPdf, pdfDocument, redactions, currentPageNumber,
                   allAnnotations, currentAnnotationIndex>>

\* The catch and finally blocks of handleRemoveAnnotations, and its end.
RemovalEnds(message) ==
    /\ toast' = message
    /\ isProcessingAnnotations' = FALSE
    /\ removal' = NoRemoval
    /\ RemovalStep

\* PDFDocument.load settles; the Annots of every page are deleted.
RemoveAnnotationsLoaded(outcome) ==
    /\ removal.pc = "load"
    /\ IF outcome = "resolved" /\ removal.originalPdf.annots # {}
       THEN /\ removal' = [removal EXCEPT !.pc = "save"]
            /\ toast' = ""
            /\ RemovalStep
            /\ UNCHANGED isProcessingAnnotations
       ELSE RemovalEnds(IF outcome = "resolved" THEN "No Annotations Found"
                        ELSE IF outcome = "EncryptedPDFError"
                             THEN "Encrypted PDF: cannot be modified"
                             ELSE "Processing Error")
    /\ UNCHANGED <<originalPdf, pdfDocument, redactions, currentPageNumber,
                   allAnnotations, currentAnnotationIndex>>

\* pdfDoc.save settles: the modified bytes replace originalPdf.
RemoveAnnotationsSaved(resolved) ==
    /\ removal.pc = "save"
    /\ IF resolved
       THEN /\ originalPdf' = AnnotatedDocument(removal.originalPdf.numPages, {})
            /\ removal' = [removal EXCEPT !.pc = "getDocument",
                                          !.pdf = originalPdf']
            /\ toast' = ""
            /\ RemovalStep
            /\ UNCHANGED isProcessingAnnotations
       ELSE /\ RemovalEnds("Processing Error")
            /\ UNCHANGED originalPdf
    /\ UNCHANGED <<pdfDocument, redactions, currentPageNumber,
                   allAnnotations, currentAnnotationIndex>>

\* getDocument settles: the modified document is installed and the region
\* list, the annotation list and the page number are reset.
RemoveAnnotationsParsed(resolved) ==
    /\ removal.pc = "getDocument"
    /\ IF resolved
       THEN /\ pdfDocument' = removal.pdf
            /\ redactions' = <<>>
            /\ allAnnotations' = <<>>
            /\ currentAnnotationIndex' = -1
            /\ currentPageNumber' = 1
            /\ removal' = [removal EXCEPT !.pc = "scan"]
            /\ toast' = ""
            /\ RemovalStep
            /\ UNCHANGED isProcessingAnnotations
       ELSE /\ RemovalEnds("Processing Error")
            /\ UNCHANGED <<pdfDocument, redactions, allAnnotations,
                           currentAnnotationIndex, currentPageNumber>>
    /\ UNCHANGED originalPdf

\* scanForAnnotations of the modified document stores its list and the
\* handler ends.
RemoveAnnotationsScanned ==
    /\ removal.pc = "scan"
    /\ allAnnotations' = scanForAnnotations(removal.pdf)
    /\ RemovalEnds("Annotations Removed")
    /\ UNCHANGED <<originalPdf, pdfDocument, redactions, currentPageNumber,
                   currentAnnotationIndex>>

NextAnnotations ==
    \/ \E n \in 1..MaxPages : \E pages \in SUBSET (1..n) :
          UploadAnnotated(n, pages) /\ UNCHANGED <<matchVars, renderVars, drawVars, termVars, historyVars>>
    \/ LoadParsed /\ UNCHANGED <<matchVars, renderVars, drawVars, annotVars, termVars, nameVars, historyVars>>
    \/ LoadFinishedScanned /\ UNCHANGED <<matchVars, renderVars, drawVars, termVars, nameVars, historyVars>>
    \/ \E passwordException \in BOOLEAN :
          /\ LoadFailed(passwordException)
          /\ handleResetAnnotations
          /\ UNCHANGED <<isProcessingAnnotations, removal>>
          /\ UNCHANGED <<matchVars, renderVars, drawVars, termVars, historyVars>>
    \/ /\ Reset
       /\ handleResetAnnotations
       /\ UNCHANGED <<isProcessingAnnotations, removal>>
       /\ UNCHANGED <<matchVars, renderVars, drawVars, termVars, historyVars>>
    \/ PrevPage /\ UNCHANGED <<matchVars, renderVars, drawVars, annotVars, termVars, nameVars, historyVars>>
    \/ NextPage /\ UNCHANGED <<matchVars, renderVars, drawVars, annotVars, termVars, nameVars, historyVars>>
    \/ /\ currentPageNumber <= totalPages
       /\ RenderCurrentPage
       /\ UNCHANGED <<matchVars, renderVars, drawVars, annotVars, termVars, nameVars, historyVars>>
    \/ \E p \in DragStarts :
          /\ ~isProcessingAnnotations
          /\ MouseDown(p)
          /\ UNCHANGED <<matchVars, renderVars, drawVars, annotVars, termVars, nameVars, historyVars>>
    \/ \E p \in DragEnds : MouseUp(p) /\ UNCHANGED <<matchVars, renderVars, drawVars, annotVars, termVars, nameVars, historyVars>>
    \/ \E checked \in BOOLEAN :
          handleHighlightToggle(checked) /\ UNCHANGED <<matchVars, renderVars, drawVars, termVars, nameVars, historyVars>>
    \/ handleNextAnnotation /\ UNCHANGED <<matchVars, renderVars, drawVars, termVars, nameVars, historyVars>>
    \/ handlePrevAnnotation /\ UNCHANGED <<matchVars, renderVars, drawVars, termVars, nameVars, historyVars>>
    \/ RemoveAnnotationsStart /\ UNCHANGED <<matchVars, renderVars, drawVars, termVars, nameVars, historyVars>>
    \/ \E outcome \in {"resolved", "EncryptedPDFError", "rejected"} :
          RemoveAnnotationsLoaded(outcome) /\ UNCHANGED <<matchVars, renderVars, drawVars, termVars, nameVars, historyVars>>
    \/ \E resolved \in BOOLEAN :
          RemoveAnnotationsSaved(resolved) /\ UNCHANGED <<matchVars, renderVars, drawVars, termVars, nameVars, historyVars>>
    \/ \E resolved \in BOOLEAN :
          RemoveAnnotationsParsed(resolved) /\ UNCHANGED <<matchVars, renderVars, drawVars, termVars, nameVars, historyVars>>
    \/ RemoveAnnotationsScanned /\ UNCHANGED <<matchVars, renderVars, drawVars, termVars, nameVars, historyVars>>

SpecAnnotations == Init /\ [][NextAnnotations]_vars

(***************************************************************************)
(* Drawing tool: exports of a list of several regions                      *)
(*                                                                         *)
(* A document is loaded and its first page rendered; the user draws up to  *)
(* MaxRegions regions, on any page, the same rectangle twice or rectangles *)
(* that overlap, and exports one list at a time.                           *)
(***************************************************************************)

MaxRegions == 2

\* The names of the files exported: with an extension, with two dots, with a
\* leading dot, without an extension, and the empty name.
FileNames == { <<"a", ".", "p">>, <<"a", ".", "b", ".", "p">>, <<".", "p">>,
               <<"a">>, <<>> }

\* The points these drags end at: the second rectangle lies inside the first.
OverlapEnds == { <<0, 0>>, <<8, 8>>, <<24, 44>> }

InitPaint ==
    /\ \E n \in 1..MaxPages :
          /\ originalPdf = Document(n)
          /\ pdfDocument = Document(n)
    /\ redactions = <<>>
    /\ currentPageNumber = 1
    /\ isDrawing = FALSE
    /\ dragStateRef = <<0, 0>>
    /\ pageViewport = Viewport
    /\ isDownloading = "null"
    /\ isParsing = FALSE
    /\ load = NoLoad
    /\ exports = <<>>
    /\ download = NoDownload
    /\ toast = ""
    /\ renders = <<>>
    /\ renderTaskRef = 0
    /\ canvas = 0
    /\ drawStartPoint = NoPoint
    /\ currentDrawing = NoDrawing
    /\ mouseUps = <<>>
    /\ AnnotationsIdle
    /\ TermsIdle
    /\ originalFilename \in FileNames
    /\ insertionOrder = <<>>
    /\ viewportPage = 0
    /\ pdfTextItems = <<>>
    /\ term = <<>>
    /\ results = <<>>
    /\ searched = FALSE

\* The history of the list: a region the step added is recorded last, a
\* region the step removed is struck out.
RecordInsertion ==
    LET ids == {redactions'[k].id : k \in 1..Len(redactions')}
        kept == SelectSeq(insertionOrder, LAMBDA i : i \in ids)
        new == ids \ {insertionOrder[k] : k \in 1..Len(insertionOrder)}
    IN /\ insertionOrder' = IF new = {} THEN kept
                            ELSE Append(kept, CHOOSE i \in new : TRUE)
       /\ UNCHANGED viewportPage

NextPaint ==
    \/ PrevPage /\ UNCHANGED <<matchVars, renderVars, drawVars, annotVars, termVars, nameVars>> /\ RecordInsertion
    \/ NextPage /\ UNCHANGED <<matchVars, renderVars, drawVars, annotVars, termVars, nameVars>> /\ RecordInsertion
    \/ \E p \in DragStarts :
          /\ Len(redactions) < MaxRegions
          /\ handleMouseDown(p)
          /\ UNCHANGED <<matchVars, renderVars, drawVars, annotVars, termVars, nameVars>> /\ RecordInsertion
    \/ \E p \in OverlapEnds : MouseUp(p) /\ UNCHANGED <<matchVars, renderVars, drawVars, annotVars, termVars, nameVars>> /\ RecordInsertion
    \/ Undo /\ UNCHANGED <<matchVars, renderVars, drawVars, annotVars, termVars, nameVars>> /\ RecordInsertion
    \/ exports = <<>> /\ StartRecoverable /\ UNCHANGED <<matchVars, renderVars, drawVars, annotVars, termVars, nameVars>> /\ RecordInsertion
    \/ exports = <<>> /\ StartSecure /\ UNCHANGED <<matchVars, renderVars, drawVars, annotVars, termVars, nameVars>> /\ RecordInsertion
    \/ \E outcome \in {"resolved", "EncryptedPDFError", "rejected"} :
          RecoverableLoad(1, outcome) /\ UNCHANGED <<matchVars, renderVars, drawVars, annotVars, termVars, nameVars>> /\ RecordInsertion
    \/ \E resolved \in BOOLEAN :
          RecoverableSave(1, resolved) /\ UNCHANGED <<matchVars, renderVars, drawVars, annotVars, termVars, nameVars>> /\ RecordInsertion
    \/ \E resolved \in BOOLEAN :
          SecureOpen(1, resolved) /\ UNCHANGED <<matchVars, renderVars, drawVars, annotVars, termVars, nameVars>> /\ RecordInsertion
    \/ \E outcome \in {"no context", "rendered", "rejected"} :
          SecureRenderPage(1, outcome) /\ UNCHANGED <<matchVars, renderVars, drawVars, annotVars, termVars, nameVars>> /\ RecordInsertion
    \/ \E outcome \in {"no blob", "embedded", "rejected"} :
          SecureEncodePage(1, outcome) /\ UNCHANGED <<matchVars, renderVars, drawVars, annotVars, termVars, nameVars>> /\ RecordInsertion
    \/ \E resolved \in BOOLEAN :
          SecureSave(1, resolved) /\ UNCHANGED <<matchVars, renderVars, drawVars, annotVars, termVars, nameVars>> /\ RecordInsertion

SpecPaint == InitPaint /\ [][NextPaint]_vars

\* ---------------------------------------------------------------------
\* Editing the region list of a loaded document: drawing, removing one
\* region, Undo and Clear All, with the history of the list recorded.
\* ---------------------------------------------------------------------

NextEdit ==
    \/ PrevPage /\ UNCHANGED <<matchVars, renderVars, drawVars, annotVars, termVars, nameVars>> /\ RecordInsertion
    \/ NextPage /\ UNCHANGED <<matchVars, renderVars, drawVars, annotVars, termVars, nameVars>> /\ RecordInsertion
    \/ \E p \in DragStarts :
          /\ Len(redactions) < MaxRegions
          /\ handleMouseDown(p)
          /\ UNCHANGED <<matchVars, renderVars, drawVars, annotVars, termVars, nameVars>> /\ RecordInsertion
    \/ \E p \in OverlapEnds : MouseUp(p) /\ UNCHANGED <<matchVars, renderVars, drawVars, annotVars, termVars, nameVars>> /\ RecordInsertion
    \/ \E k \in 1..MaxRegions :
          RemoveSingleRedaction(k) /\ UNCHANGED <<matchVars, renderVars, drawVars, annotVars, termVars, nameVars>> /\ RecordInsertion
    \/ Undo /\ UNCHANGED <<matchVars, renderVars, drawVars, annotVars, termVars, nameVars>> /\ RecordInsertion
    \/ ClearAll /\ UNCHANGED <<matchVars, renderVars, drawVars, annotVars, termVars, nameVars>> /\ RecordInsertion

SpecEdit == InitPaint /\ [][NextEdit]_vars

(***************************************************************************)
(* Drawing tool: properties                                                *)
(***************************************************************************)

\* C1: whenever the secure (flatten) export hands a document to the download
\* boundary, the document has exactly one page for every page of the source,
\* in the source's order: no page is left out.
C1_SecureOutputHasEveryPage ==
    download.mode = "flattened" =>
        /\ Len(download.pages) = download.source.numPages
        /\ \A n \in 1..Len(download.pages) : download.pages[n].source = n - 1

\* C2: at any time at most one export handler, recoverable or secure, is
\* between its setIsDownloading(mode) and its finally block.
C2_OneExportInFlight == Len(exports) <= 1

\* The regions of list l on the page with index pageIndex.
RegionsOn(l, pageIndex) == SelectSeq(l, LAMBDA r : r.pageIndex = pageIndex)

\* C3: what an export has painted on a page, on the canvas it is about to
\* encode and on every page of its output, is the regions of that page in the
\* region list as it was when the export started, whatever the list is now.
C3_ExportPaintsStartingList ==
    \A k \in 1..Len(exports) :
        LET e == exports[k]
        IN /\ e.pc = "blob" => e.painted = RegionsOn(e.redactions, e.i)
           /\ \A n \in 1..Len(e.pages) :
                 e.pages[n].painted = RegionsOn(e.redactions, e.pages[n].source)

\* A secure export is about to save an output with a painted region while the
\* region list is no longer the one the export started with.
C3_Witness ==
    \E k \in 1..Len(exports) :
        /\ exports[k].mode = "flattened"
        /\ exports[k].pc = "save"
        /\ \E n \in 1..Len(exports[k].pages) : exports[k].pages[n].painted # <<>>
        /\ redactions # exports[k].redactions

\* C4: at most one render task runs on the shared canvas at a time, and once
\* no renderPage call is in progress what the canvas shows is the page
\* requested last, the current page.
C4_CanvasShowsLatestPage ==
    /\ Cardinality(Rendering) <= 1
    /\ (renders = <<>> /\ canvas # 0) => canvas = currentPageNumber

\* The last region of the list.
LastRegion(l) == l[Len(l)]

\* The four numbers of a rectangle or region.
Box(r) == [x |-> r.x, y |-> r.y, width |-> r.width, height |-> r.height]

\* C11: the region stored for a drawn screen rectangle, converted back to
\* canvas coordinates with the renderer's formula at the render scale 2.0,
\* is the drawn rectangle: the same x, y, width and height.
C11_DrawnRectRoundTrips ==
    [][\A k \in 1..Len(mouseUps) :
          EarlierMouseUpResumes(k, TRUE) =>
              canvasRect(LastRegion(redactions')) = Box(mouseUps[k].currentDrawing)]_vars

\* C12: a mouse-up ending a drag whose screen width or height does not
\* exceed the minimum size adds no region; one ending a drag that exceeds it
\* in both dimensions appends exactly one region, tagged with the page shown.
C12_SmallDragAddsNoRegion ==
    [][\A k \in 1..Len(mouseUps) :
          EarlierMouseUpResumes(k, TRUE) =>
              IF \/ mouseUps[k].currentDrawing.width <= MinDragSize
                 \/ mouseUps[k].currentDrawing.height <= MinDragSize
              THEN redactions' = redactions
              ELSE /\ Len(redactions') = Len(redactions) + 1
                   /\ SubSeq(redactions', 1, Len(redactions)) = redactions
                   /\ LastRegion(redactions').pageIndex
                          = mouseUps[k].currentPageNumber - 1]_vars

\* C15: every region of the list has a strictly positive width and a
\* strictly positive height.
C15_RegionsHavePositiveSize ==
    \A k \in 1..Len(redactions) :
        redactions[k].width > 0 /\ redactions[k].height > 0

(***************************************************************************)
(* Term tool: the text items of the loaded document                        *)
(*                                                                         *)
(* A PdfTextItem is [str, x, y, width, height, pageIndex], x and y being   *)
(* transform[4] and transform[5] of the source's item.                     *)
(***************************************************************************)

\* The longest list of text items drawn as an input.
MaxItems == 3

\* Input geometry (tenths of a page unit): the advance of one character, the
\* font height, a word gap, a column gap and the distance between two lines.
CharWidth == 50
FontHeight == 100
WordGap == 20
ColumnGap == 150
LineStep == 120
FirstLineY == 7000

\* The texts an item is drawn from.  handleFileUpload keeps an item only if
\* its text has a non-blank character.
ItemTexts ==
    { <<"a">>, <<"b">>, <<"A">>, <<"a", "b">>, <<"a", " ">> }

\* The terms findMatchingTextItems is applied to.
Terms ==
    { <<>>, <<" ">>, <<"a">>, <<"b">>, <<"a", "b">>, <<"a", " ", "b">>,
      <<"A", "b">> }

\* How an item lies relative to the item before it.
Layouts == {"adjacent", "wordgap", "columngap", "newline", "newpage"}

\* The item with text s placed after item prev in the way lay says.
PlaceAfter(prev, lay, s) ==
    [ str |-> s,
      x |-> CASE lay = "adjacent" -> prev.x + prev.width
              [] lay = "wordgap" -> prev.x + prev.width + WordGap
              [] lay = "columngap" -> prev.x + prev.width + ColumnGap
              [] OTHER -> 0,
      y |-> IF lay = "newline" THEN prev.y - LineStep ELSE prev.y,
      width |-> CharWidth * Len(s),
      height |-> FontHeight,
      pageIndex |-> IF lay = "newpage" THEN prev.pageIndex + 1
                    ELSE prev.pageIndex ]

\* The first item of a document.
FirstItem(s) ==
    [ str |-> s, x |-> 0, y |-> FirstLineY, width |-> CharWidth * Len(s),
      height |-> FontHeight, pageIndex |-> 0 ]

\* The item list with the given texts and layouts (layouts[k] places item k+1).
RECURSIVE BuildItems(_, _, _)
BuildItems(texts, layouts, acc) ==
    IF Len(acc) = Len(texts) THEN acc
    ELSE IF acc = <<>> THEN BuildItems(texts, layouts, <<FirstItem(texts[1])>>)
    ELSE BuildItems(texts, layouts,
             Append(acc, PlaceAfter(acc[Len(acc)], layouts[Len(acc)],
                                    texts[Len(acc) + 1])))

\* items is a list of 1..MaxItems items, in reading order.
IsItemList(items) ==
    \E n \in 1..MaxItems :
        \E texts \in [1..n -> ItemTexts], layouts \in [1..(n - 1) -> Layouts] :
            items = BuildItems(texts, layouts, <<>>)

(***************************************************************************)
(* Term tool: findMatchingTextItems                                        *)
(***************************************************************************)

\* 0.1 page units, in tenths: a gap wider than this adds a space.
SpaceGap == 1
\* The remainder around the term must be shorter than this.
RemainderLimit == 2
\* The buffer may exceed the term's length by this many characters.
BufferSlack == 20

\* "if (currentItem.pageIndex !== prevItem.pageIndex) break"
PageBreakOff(currentItem, prevItem) == FALSE
PageBreak(currentItem, prevItem) == currentItem.pageIndex # prevItem.pageIndex

\* yDiff > currentItem.height * 0.5
IsNewLine(currentItem, prevItem) ==
    2 * Abs(currentItem.y - prevItem.y) > currentItem.height

\* currentItem.transform[4] - (prevItem.transform[4] + prevItem.width)
Gap(currentItem, prevItem) == currentItem.x - (prevItem.x + prevItem.width)

\* The three breaks taken before item j is added to the buffer.
BreaksBefore(currentItem, prevItem) ==
    \/ PageBreak(currentItem, prevItem)
    \/ IsNewLine(currentItem, prevItem)
    \/ Gap(currentItem, prevItem) > currentItem.height

\* "buffer.toLowerCase().includes(termToSearch)"
ContainsTermOff(buffer, termToSearch) == TRUE
ContainsTerm(buffer, termToSearch) == includes(toLowerCase(buffer), termToSearch)

\* "remainder.length < 2", remainder being the lower-cased buffer with the
\* first occurrence of the term removed, trimmed.
RemainderSmall(buffer, termToSearch) ==
    Len(trim(replaceFirst(toLowerCase(buffer), termToSearch))) < RemainderLimit

\* "if (buffer.length > term.length + 20) break"
BufferFullOff(buffer, t) == FALSE
BufferFull(buffer, t) == Len(buffer) > Len(t) + BufferSlack

\* The inner loop from start index i, at item j with the buffer built so far:
\* the index of the last item of the match recorded, or 0 when the loop ends
\* without one.
RECURSIVE ScanFrom(_, _, _, _, _)
ScanFrom(items, t, i, j, buffer) ==
    IF j > Len(items) THEN 0
    ELSE IF j > i /\ BreaksBefore(items[j], items[j - 1]) THEN 0
    ELSE LET sep == IF j > i /\ Gap(items[j], items[j - 1]) > SpaceGap
                    THEN <<" ">> ELSE <<>>
             buf == buffer \o sep \o items[j].str
             termToSearch == toLowerCase(t)
         IN IF ContainsTerm(buf, termToSearch) /\ RemainderSmall(buf, termToSearch)
            THEN j
            ELSE IF BufferFull(buf, t) THEN 0
            ELSE ScanFrom(items, t, i, j + 1, buf)

\* The values of the buffer of the inner loop from start index i, one for
\* each item the loop adds to it.
RECURSIVE Buffers(_, _, _, _, _)
Buffers(items, t, i, j, buffer) ==
    IF j > Len(items) THEN <<>>
    ELSE IF j > i /\ BreaksBefore(items[j], items[j - 1]) THEN <<>>
    ELSE LET sep == IF j > i /\ Gap(items[j], items[j - 1]) > SpaceGap
                    THEN <<" ">> ELSE <<>>
             buf == buffer \o sep \o items[j].str
             termToSearch == toLowerCase(t)
         IN IF ContainsTerm(buf, termToSearch) /\ RemainderSmall(buf, termToSearch)
            THEN <<buf>>
            ELSE IF BufferFull(buf, t) THEN <<buf>>
            ELSE <<buf>> \o Buffers(items, t, i, j + 1, buf)

\* "i = j" followed by the outer loop's i++.
NextStartNoSkip(i, j) == i + 1
NextStart(i, j) == j + 1

\* The outer loop from start index i; a match is the sequence of the indexes
\* (1-based) of its items.
RECURSIVE FindFrom(_, _, _, _)
FindFrom(items, t, i, acc) ==
    IF i > Len(items) THEN acc
    ELSE LET j == ScanFrom(items, t, i, i, <<>>)
         IN IF j = 0 THEN FindFrom(items, t, i + 1, acc)
            ELSE FindFrom(items, t, NextStart(i, j),
                          Append(acc, [k \in 1..(j - i + 1) |-> i + k - 1]))

findMatchingTextItems(t) == FindFrom(pdfTextItems, t, 1, <<>>)

\* The term tool with a document loaded and a term to look for.
InitMatch ==
    /\ IsItemList(pdfTextItems)
    /\ term \in Terms
    /\ results = <<>>
    /\ searched = FALSE
    /\ ToolIdle

\* One call findMatchingTextItems(term).
FindMatches ==
    /\ ~searched
    /\ results' = findMatchingTextItems(term)
    /\ searched' = TRUE
    /\ UNCHANGED <<pdfTextItems, term>>
    /\ UNCHANGED <<toolVars, renderVars, drawVars, annotVars, termVars, nameVars, historyVars>>

NextMatch == FindMatches

SpecMatch == InitMatch /\ [][NextMatch]_vars

\* ---------------------------------------------------------------------
\* findMatchingTextItems on documents with long fragments, where the buffer
\* outgrows the term.
\* ---------------------------------------------------------------------

\* The length of a long fragment.
LongRun == 11

ScanTexts == { <<"a">>, <<"b">>, [k \in 1..LongRun |-> "b"] }

ScanTerms == { <<"a">>, <<"b", "a">>, <<"c">> }

InitScan ==
    /\ \E n \in 1..MaxItems :
          \E texts \in [1..n -> ScanTexts], layouts \in [1..(n - 1) -> Layouts] :
              pdfTextItems = BuildItems(texts, layouts, <<>>)
    /\ term \in ScanTerms
    /\ results = <<>>
    /\ searched = FALSE
    /\ ToolIdle

SpecScan == InitScan /\ [][NextMatch]_vars

(***************************************************************************)
(* Term tool: the rectangle drawn for a match                              *)
(***************************************************************************)

\* page.getHeight() of every page, in tenths of a page unit.
TermPageHeight == 7920

\* "minX - 1", "(maxX - minX) + 2": the margin of one page unit, in tenths.
BoxMargin == 10

\* boxX, boxY, boxWidth and boxHeight of the match whose items have the
\* indexes m, in hundredths of a page unit (ascent and descent are 0.8 and
\* 0.2 of an item's height).
matchBox(m) ==
    LET item(k) == pdfTextItems[m[k]]
        ks == 1..Len(m)
        minX == SetMin({10 * item(k).x : k \in ks})
        maxX == SetMax({10 * (item(k).x + item(k).width) : k \in ks})
        topY == SetMin({10 * item(k).y - 8 * item(k).height : k \in ks})
        bottomY == SetMax({10 * item(k).y + 2 * item(k).height : k \in ks})
    IN [ x |-> minX - 10 * BoxMargin,
         y |-> 10 * TermPageHeight - bottomY,
         width |-> (maxX - minX) + 2 * 10 * BoxMargin,
         height |-> bottomY - topY ]

\* viewport.height of getViewport({ scale: 2.0 }), which is also
\* canvas.height, in hundredths.
termViewportHeight == 10 * TermPageHeight * RenderScale

\* The arguments of context.fillRect for one area of redactionAreasByPage in
\* the secure export, in hundredths.
termFillRect(area) ==
    [ x |-> area.x * RenderScale,
      y |-> (termViewportHeight - area.y - area.height) * RenderScale,
      width |-> area.width * RenderScale,
      height |-> area.height * RenderScale ]

\* "[...new Set(redactionTerms)]": the terms without repetitions, each at
\* the place of its first occurrence.
allTerms(terms) ==
    LET first(k) == \A h \in 1..(k - 1) : terms[h] # terms[k]
    IN SelectSeq([k \in 1..Len(terms) |-> <<k, terms[k]>>],
                 LAMBDA e : first(e[1]))

\* The rectangle with its page: pageIndex is matchedItems[0].pageIndex.
OnPage(m, box) ==
    [ pageIndex |-> pdfTextItems[m[1]].pageIndex,
      x |-> box.x, y |-> box.y, width |-> box.width, height |-> box.height ]

\* A box without the margin of one page unit on its left and right.
secureBoxNoMargin(m) ==
    [matchBox(m) EXCEPT !.x = @ + 10 * BoxMargin,
                        !.width = @ - 2 * 10 * BoxMargin]

\* boxX, boxY, boxWidth and boxHeight as handleDownloadSecure computes them
\* for the match whose items have the indexes m, in hundredths.
secureBox(m) ==
    LET item(k) == pdfTextItems[m[k]]
        ks == 1..Len(m)
        minX == SetMin({10 * item(k).x : k \in ks})
        maxX == SetMax({10 * (item(k).x + item(k).width) : k \in ks})
        topY == SetMin({10 * item(k).y - 8 * item(k).height : k \in ks})
        bottomY == SetMax({10 * item(k).y + 2 * item(k).height : k \in ks})
    IN [ x |-> minX - 10 * BoxMargin,
         y |-> 10 * TermPageHeight - bottomY,
         width |-> (maxX - minX) + 2 * 10 * BoxMargin,
         height |-> bottomY - topY ]

\* The loops "for (const term of allTerms)" and "for (const matchedItems of
\* termMatches)" of the secure export (secure) or of the recoverable one:
\* the rectangles in the order they are computed.
RECURSIVE TermLoop(_, _)
TermLoop(secure, terms) ==
    IF terms = <<>> THEN <<>>
    ELSE LET termMatches == findMatchingTextItems(terms[1][2])
             box(m) == IF secure THEN secureBox(m) ELSE matchBox(m)
         IN [a \in 1..Len(termMatches) |->
                 OnPage(termMatches[a], box(termMatches[a]))]
            \o TermLoop(secure, SubSeq(terms, 2, Len(terms)))

\* The rectangles handleDownloadRecoverable hands to page.drawRectangle.
drawRectangle == TermLoop(FALSE, allTerms(redactionTerms))

\* The areas handleDownloadSecure pushes to redactionAreasByPage, in the
\* order of the pushes, each with the page it is pushed for.
redactionAreas == TermLoop(TRUE, allTerms(redactionTerms))

\* redactionAreasByPage[pageIndex].
redactionAreasByPage(pageIndex) ==
    SelectSeq(redactionAreas, LAMBDA area : area.pageIndex = pageIndex)

\* ---------------------------------------------------------------------
\* The rectangles of the two exports for one document and one term list.
\* ---------------------------------------------------------------------

\* The longest term list drawn as an input.
MaxTerms == 2

BoxTexts == { <<"a">>, <<"b">> }

BoxTerms == { <<"a">>, <<"A">>, <<"a", "b">> }

BoxLayouts == {"adjacent", "wordgap", "newpage"}

InitBoxes ==
    /\ \E n \in 1..MaxItems :
          \E texts \in [1..n -> BoxTexts], layouts \in [1..(n - 1) -> BoxLayouts] :
              pdfTextItems = BuildItems(texts, layouts, <<>>)
    /\ \E n \in 1..MaxTerms :
          /\ redactionTerms \in [1..n -> BoxTerms]
          /\ \A h, k \in 1..n : h # k => redactionTerms[h] # redactionTerms[k]
    /\ documentText = <<>>
    /\ term = <<>>
    /\ results = <<>>
    /\ searched = FALSE
    /\ SessionIdle

\* The loops of handleDownloadRecoverable.
RecoverableRectangles ==
    /\ ~searched
    /\ results' = drawRectangle
    /\ searched' = TRUE
    /\ UNCHANGED <<pdfTextItems, term>>
    /\ UNCHANGED <<toolVars, renderVars, drawVars, annotVars, termVars, nameVars, historyVars>>

\* The loops of handleDownloadSecure.
SecureAreas ==
    /\ ~searched
    /\ results' = redactionAreas
    /\ searched' = TRUE
    /\ UNCHANGED <<pdfTextItems, term>>
    /\ UNCHANGED <<toolVars, renderVars, drawVars, annotVars, termVars, nameVars, historyVars>>

NextBoxes ==
    \/ RecoverableRectangles
    \/ SecureAreas

SpecBoxes == InitBoxes /\ [][NextBoxes]_vars

(***************************************************************************)
(* Term tool: the two exports, await by await                              *)
(*                                                                         *)
(* An export in flight is a record of exports: pc is the await it is       *)
(* suspended at, i the index of the page the secure export is at, areas    *)
(* the rectangles it computed and pages the pages of its output.           *)
(***************************************************************************)

\* The rest of the model's state, which the term tool's exports leave alone.
TermExportStep ==
    UNCHANGED <<matchVars, originalPdf, pdfDocument, redactions,
                currentPageNumber, isDrawing, dragStateRef, pageViewport,
                isParsing, load, renderVars, drawVars, annotVars, termVars,
                nameVars, historyVars>>

\* The Download menu is enabled.
TermDownloadEnabled ==
    /\ originalPdf # NoDocument
    /\ redactionTerms # <<>>
    /\ isDownloading = "null"

\* handleDownloadRecoverable up to "await PDFDocument.load(...)".
TermStartRecoverable ==
    /\ TermDownloadEnabled
    /\ exports = <<>>
    /\ isDownloading' = "recoverable"
    /\ exports' = <<[ mode |-> "recoverable", pc |-> "load", i |-> 0,
                      originalPdf |-> originalPdf, areas |-> <<>>,
                      pages |-> <<>> ]>>
    /\ download' = NoDownload
    /\ toast' = ""
    /\ TermExportStep

\* handleDownloadSecure('flattened') up to "await PDFDocument.create()".
TermStartSecure ==
    /\ TermDownloadEnabled
    /\ exports = <<>>
    /\ isDownloading' = "flattened"
    /\ exports' = <<[ mode |-> "flattened", pc |-> "open", i |-> 0,
                      originalPdf |-> originalPdf, areas |-> <<>>,
                      pages |-> <<>> ]>>
    /\ download' = NoDownload
    /\ toast' = ""
    /\ TermExportStep

\* Export 1 goes on to its next await.
TermExportContinues(e) ==
    /\ exports' = <<e>>
    /\ download' = NoDownload
    /\ toast' = ""
    /\ UNCHANGED isDownloading
    /\ TermExportStep

\* The catch and finally blocks.
TermExportFails ==
    /\ exports' = <<>>
    /\ isDownloading' = "null"
    /\ download' = NoDownload
    /\ toast' = "Download Error"
    /\ TermExportStep

\* "await pdfDoc.save()" settled: the download link is clicked, then the
\* finally block; or the catch and finally blocks.
TermExportSave(resolved) ==
    /\ exports # <<>>
    /\ exports[1].pc = "save"
    /\ IF resolved
       THEN /\ exports' = <<>>
            /\ isDownloading' = "null"
            /\ download' = [ mode |-> exports[1].mode,
                             filename |-> <<"redacted-document-",
                                            exports[1].mode, ".pdf">>,
                             source |-> exports[1].originalPdf,
                             pages |-> exports[1].pages ]
            /\ toast' = "Download Ready"
            /\ TermExportStep
       ELSE TermExportFails

\* "await PDFDocument.load(...)" of the recoverable export settled; when it
\* resolved the rectangles are drawn and pdfDoc.save() is awaited.
TermRecoverableLoad(resolved) ==
    /\ exports # <<>>
    /\ exports[1].pc = "load"
    /\ IF resolved
       THEN TermExportContinues(
                [exports[1] EXCEPT
                    !.pc = "save",
                    !.areas = drawRectangle,
                    !.pages = [n \in 1..exports[1].originalPdf.numPages |->
                                 [ source |-> n,
                                   painted |-> SelectSeq(drawRectangle,
                                       LAMBDA r : r.pageIndex = n - 1) ]]])
       ELSE TermExportFails

\* The page of index e.i is awaited, or pdf.save() when there is none.
TermNextPageOf(e) ==
    IF e.i < e.originalPdf.numPages THEN [e EXCEPT !.pc = "getPage"]
    ELSE [e EXCEPT !.pc = "save"]

\* PDFDocument.create(), getDocument and PDFDocument.load of the secure
\* export settled; when they resolved the areas are computed and the first
\* page is awaited.
TermSecureOpen(resolved) ==
    /\ exports # <<>>
    /\ exports[1].pc = "open"
    /\ IF resolved
       THEN TermExportContinues(
                TermNextPageOf([exports[1] EXCEPT !.areas = redactionAreas]))
       ELSE TermExportFails

\* "await pdfToRender.getPage(i + 1)" settled: without a 2d context the page
\* is skipped, with one page.render is awaited.
TermSecureGetPage(outcome) ==
    /\ exports # <<>>
    /\ exports[1].pc = "getPage"
    /\ CASE outcome = "context" ->
              TermExportContinues([exports[1] EXCEPT !.pc = "render"])
         [] outcome = "no context" ->
              TermExportContinues(
                  TermNextPageOf([exports[1] EXCEPT !.i = @ + 1]))
         [] OTHER -> TermExportFails

\* "await page.render(...).promise" settled: the areas of the page are
\* filled and canvas.toBlob is called.
TermSecureRender(resolved) ==
    /\ exports # <<>>
    /\ exports[1].pc = "render"
    /\ IF resolved
       THEN TermExportContinues([exports[1] EXCEPT !.pc = "toBlob"])
       ELSE TermExportFails

\* The callback of canvas.toBlob runs.  With a blob the FileReader reads it
\* and its onloadend resolves the awaited promise; with null,
\* readAsArrayBuffer(blob!) throws inside the callback and nothing ever
\* resolves or rejects the promise.
TermSecureToBlob(blob) ==
    /\ exports # <<>>
    /\ exports[1].pc = "toBlob"
    /\ TermExportContinues(
           [exports[1] EXCEPT !.pc = IF blob THEN "embedPng" ELSE "never"])

\* "await newPdfDoc.embedPng(imageBytes)" settled: the page is added with
\* the image and the loop goes on.
TermSecureEmbed(resolved) ==
    /\ exports # <<>>
    /\ exports[1].pc = "embedPng"
    /\ IF resolved
       THEN LET e == exports[1]
                area(r) == [ x |-> r.x, y |-> r.y, width |-> r.width,
                             height |-> r.height ]
                painted == [a \in 1..Len(SelectSeq(e.areas,
                                         LAMBDA r : r.pageIndex = e.i)) |->
                               termFillRect(area(SelectSeq(e.areas,
                                   LAMBDA r : r.pageIndex = e.i)[a]))]
            IN TermExportContinues(
                   TermNextPageOf(
                       [e EXCEPT !.i = @ + 1,
                                 !.pages = Append(@, [ source |-> e.i + 1,
                                                       painted |-> painted ])]))
       ELSE TermExportFails

\* A document loaded in the term tool, with a term list.
InitTermExport ==
    /\ \E n \in 1..MaxItems :
          \E texts \in [1..n -> BoxTexts], layouts \in [1..(n - 1) -> BoxLayouts] :
              pdfTextItems = BuildItems(texts, layouts, <<>>)
    /\ redactionTerms \in {<<t>> : t \in BoxTerms}
    /\ documentText = <<"a">>
    /\ term = <<>>
    /\ results = <<>>
    /\ searched = FALSE
    /\ pdfDocument = NoDocument
    /\ redactions = <<>>
    /\ currentPageNumber = 1
    /\ isDrawing = FALSE
    /\ dragStateRef = <<0, 0>>
    /\ pageViewport = NoViewport
    /\ isDownloading = "null"
    /\ isParsing = FALSE
    /\ load = NoLoad
    /\ exports = <<>>
    /\ download = NoDownload
    /\ toast = ""
    /\ renders = <<>>
    /\ renderTaskRef = 0
    /\ canvas = 0
    /\ drawStartPoint = NoPoint
    /\ currentDrawing = NoDrawing
    /\ mouseUps = <<>>
    /\ AnnotationsIdle
    /\ originalFilename = <<>>
    /\ insertionOrder = <<>>
    /\ viewportPage = 0
    /\ originalPdf = Document(pdfTextItems[Len(pdfTextItems)].pageIndex + 1)

NextTermExport ==
    \/ TermStartRecoverable
    \/ TermStartSecure
    \/ \E resolved \in BOOLEAN : TermRecoverableLoad(resolved)
    \/ \E resolved \in BOOLEAN : TermSecureOpen(resolved)
    \/ \E outcome \in {"context", "no context", "rejected"} :
          TermSecureGetPage(outcome)
    \/ \E resolved \in BOOLEAN : TermSecureRender(resolved)
    \/ \E blob \in BOOLEAN : TermSecureToBlob(blob)
    \/ \E resolved \in BOOLEAN : TermSecureEmbed(resolved)
    \/ \E resolved \in BOOLEAN : TermExportSave(resolved)

\* The awaits of an export in flight: each of them settles.
TermExportSettles ==
    \/ \E resolved \in BOOLEAN : TermRecoverableLoad(resolved)
    \/ \E resolved \in BOOLEAN : TermSecureOpen(resolved)
    \/ \E outcome \in {"context", "no context", "rejected"} :
          TermSecureGetPage(outcome)
    \/ \E resolved \in BOOLEAN : TermSecureRender(resolved)
    \/ \E blob \in BOOLEAN : TermSecureToBlob(blob)
    \/ \E resolved \in BOOLEAN : TermSecureEmbed(resolved)
    \/ \E resolved \in BOOLEAN : TermExportSave(resolved)

SpecTermExport == InitTermExport /\ [][NextTermExport]_vars

\* Every promise an export awaits settles, and the browser runs the
\* callback of toBlob.
SpecTermExportFair == SpecTermExport /\ WF_vars(TermExportSettles)

(***************************************************************************)
(* Term tool: upload, terms and reset                                      *)
(*                                                                         *)
(* A file is [numPages, items]: its bytes stand for themselves, its items  *)
(* are what getTextContent gives for its pages.                            *)
(***************************************************************************)

\* The files uploaded and the terms toggled.
TermFiles == { [numPages |-> 1, items |-> <<FirstItem(<<"a">>)>>],
               [numPages |-> 1, items |-> <<FirstItem(<<"a", "b">>)>>],
               [numPages |-> 2, items |-> <<>>] }
SessionTerms == { <<"a">>, <<"A">>, <<"b">>, <<"a", "b">> }

\* The rest of the model's state, which the term tool's session leaves alone.
TermSessionStep ==
    /\ download' = NoDownload
    /\ UNCHANGED <<term, results, searched, pdfDocument, redactions,
                   currentPageNumber, isDrawing, dragStateRef, pageViewport,
                   exports, renderVars, drawVars, annotVars, nameVars,
                   historyVars>>

\* handleReset of the term tool.
TermHandleReset ==
    /\ documentText' = <<>>
    /\ redactionTerms' = <<>>
    /\ originalPdf' = NoDocument
    /\ pdfTextItems' = <<>>
    /\ isDownloading' = "null"

\* handleFileUpload with a PDF chosen in the upload area, which is shown
\* while there is no text and nothing is being parsed, up to
\* reader.readAsArrayBuffer.
TermUpload(file) ==
    /\ documentText = <<>>
    /\ ~isParsing
    /\ TermHandleReset
    /\ isParsing' = TRUE
    /\ load' = [pc |-> "reading", file |-> file]
    /\ toast' = ""
    /\ TermSessionStep

\* reader.onerror.
TermReaderError ==
    /\ load.pc = "reading"
    /\ toast' = "File Read Error"
    /\ isParsing' = FALSE
    /\ load' = NoLoad
    /\ UNCHANGED <<documentText, redactionTerms, originalPdf, pdfTextItems,
                   isDownloading>>
    /\ TermSessionStep

\* reader.onload up to "await getDocument(...).promise": the bytes are stored.
TermReaderLoaded ==
    /\ load.pc = "reading"
    /\ originalPdf' = load.file
    /\ load' = [load EXCEPT !.pc = "parsing"]
    /\ toast' = ""
    /\ UNCHANGED <<documentText, redactionTerms, pdfTextItems, isDownloading,
                   isParsing>>
    /\ TermSessionStep

\* The rest of reader.onload: getDocument and the page loop resolved, or one
\* of them rejected with the named error; the try, catch and finally blocks.
TermLoadSettles(outcome) ==
    /\ load.pc = "parsing"
    /\ IF outcome = "resolved"
       THEN /\ documentText' = [k \in 1..Len(load.file.items) |-> load.file.items[k].str]
                                 \o [n \in 1..load.file.numPages |-> "\n\n"]
            /\ pdfTextItems' = load.file.items
            /\ toast' = "PDF Loaded"
       ELSE /\ toast' = "PDF Parsing Error"
            /\ UNCHANGED <<documentText, pdfTextItems>>
    /\ isParsing' = FALSE
    /\ load' = NoLoad
    /\ UNCHANGED <<redactionTerms, originalPdf, isDownloading>>
    /\ TermSessionStep

\* toggleRedactionStatus(t), from a term shown beside the document's text.
toggleRedactionStatus(t) ==
    /\ documentText # <<>>
    /\ LET same(u) == toLowerCase(u) = toLowerCase(t)
       IN redactionTerms' =
              IF \E k \in 1..Len(redactionTerms) : same(redactionTerms[k])
              THEN SelectSeq(redactionTerms, LAMBDA u : ~same(u))
              ELSE Append(redactionTerms, t)
    /\ toast' = ""
    /\ UNCHANGED <<documentText, originalPdf, pdfTextItems, isDownloading,
                   isParsing, load>>
    /\ TermSessionStep

\* The Reset button of the term tool.
TermReset ==
    /\ TermHandleReset
    /\ toast' = ""
    /\ UNCHANGED <<isParsing, load>>
    /\ TermSessionStep

InitSession ==
    /\ ToolIdle
    /\ pdfTextItems = <<>>
    /\ term = <<>>
    /\ results = <<>>
    /\ searched = FALSE

NextSession ==
    \/ \E file \in TermFiles : TermUpload(file)
    \/ TermReaderError
    \/ TermReaderLoaded
    \/ \E outcome \in {"resolved", "PasswordException", "InvalidPDFException"} :
          TermLoadSettles(outcome)
    \/ \E t \in SessionTerms : toggleRedactionStatus(t)
    \/ TermReset

SpecSession == InitSession /\ [][NextSession]_vars

(***************************************************************************)
(* Term tool: properties of findMatchingTextItems                          *)
(***************************************************************************)

\* A text lower-cased with its white space stripped.
Normalized(s) == SelectSeq(toLowerCase(s), LAMBDA c : ~IsWhitespace(c))

\* The concatenated text of items i..j.
RECURSIVE RunText(_, _, _)
RunText(items, i, j) ==
    IF i > j THEN <<>> ELSE items[i].str \o RunText(items, i + 1, j)

\* Items i..j lie on one page.
OnOnePage(items, i, j) ==
    \A k \in i..j : items[k].pageIndex = items[i].pageIndex

\* Items i..j lie on one line, each next to the one before it or a word gap
\* after it.
OnOneLine(items, i, j) ==
    \A k \in (i + 1)..j :
        /\ items[k].y = items[k - 1].y
        /\ Gap(items[k], items[k - 1]) \in {0, WordGap}

\* The items of match m, a sequence of indexes, are consecutive.
Contiguous(m) == \A k \in 1..(Len(m) - 1) : m[k + 1] = m[k] + 1

\* The whole item list is the term split across its items: one page, one
\* line, the words' white space kept as characters, dropped, or left as a gap.
IsSplitOfTerm ==
    /\ Normalized(term) # <<>>
    /\ OnOnePage(pdfTextItems, 1, Len(pdfTextItems))
    /\ OnOneLine(pdfTextItems, 1, Len(pdfTextItems))
    /\ Normalized(RunText(pdfTextItems, 1, Len(pdfTextItems))) = Normalized(term)

\* C5: a term split in any way across the items of the list is returned as
\* exactly one match, made of exactly those items.
C5_SplitTermIsOneMatch ==
    (searched /\ IsSplitOfTerm) =>
        results = << [k \in 1..Len(pdfTextItems) |-> k] >>

\* C6: every match is a contiguous run of items whose normalized text equals
\* the normalized term, with no further non-blank character (stated for the
\* terms that have a non-blank character; C10 is about the others).
C6_MatchTextEqualsTerm ==
    (searched /\ Normalized(term) # <<>>) =>
        \A a \in 1..Len(results) :
            /\ Contiguous(results[a])
            /\ Normalized(RunText(pdfTextItems, results[a][1],
                                  results[a][Len(results[a])])) = Normalized(term)

\* C7: the items of a match all have the same pageIndex.
C7_MatchOnOnePage ==
    searched =>
        \A a \in 1..Len(results) :
            \A k \in 1..Len(results[a]) :
                pdfTextItems[results[a][k]].pageIndex
                    = pdfTextItems[results[a][1]].pageIndex

\* C7's case: the last item of a page and the first item of the next are
\* adjacent in the list and together spell the term, and a match was returned.
C7_Witness ==
    /\ searched
    /\ results # <<>>
    /\ \E i \in 1..(Len(pdfTextItems) - 1) :
          /\ pdfTextItems[i].pageIndex # pdfTextItems[i + 1].pageIndex
          /\ Normalized(pdfTextItems[i].str \o pdfTextItems[i + 1].str)
                 = Normalized(term)

\* C8: the matches of one term are pairwise disjoint and in item order: each
\* match starts after the last item of the match before it.
C8_MatchesDisjointInOrder ==
    searched =>
        /\ \A a \in 1..Len(results) : results[a] # <<>> /\ Contiguous(results[a])
        /\ \A a \in 1..(Len(results) - 1) :
              results[a + 1][1] >= results[a][Len(results[a])] + 1

\* C8's case: a match of several items followed by another match.
C8_Witness ==
    /\ searched
    /\ Len(results) >= 2
    /\ Len(results[1]) >= 2

\* The normalized term occurs in the normalized text of some run of
\* consecutive items of one page.
TermOccurs ==
    \E i \in 1..Len(pdfTextItems) : \E j \in i..Len(pdfTextItems) :
        /\ OnOnePage(pdfTextItems, i, j)
        /\ includes(Normalized(RunText(pdfTextItems, i, j)), Normalized(term))

\* C9: a term that occurs in no run of consecutive items of one page has no
\* match.
C9_AbsentTermHasNoMatch ==
    (searched /\ ~TermOccurs) => results = <<>>

\* C9's case: the search has run for a term that does not occur.
C9_Witness ==
    /\ searched
    /\ ~TermOccurs
    /\ Len(pdfTextItems) >= 2
    /\ results = <<>>

\* C10: an empty or all-blank term has no match.
C10_BlankTermHasNoMatch ==
    (searched /\ Normalized(term) = <<>>) => results = <<>>

\* C13: the rectangle drawn for a match, in the bottom-left-origin page space
\* in which drawRectangle draws it, contains the extent of every item of
\* the match, [x, x + width] by [y, y + height], and goes beyond the union of
\* the extents by the margin on the left, on the right, below and above.
C13_BoxCoversItemsWithMargin ==
    searched =>
        \A a \in 1..Len(results) :
            LET m == results[a]
                box == matchBox(m)
                ks == 1..Len(m)
                left == SetMin({10 * pdfTextItems[m[k]].x : k \in ks})
                right == SetMax({10 * (pdfTextItems[m[k]].x
                                         + pdfTextItems[m[k]].width) : k \in ks})
                bottom == SetMin({10 * pdfTextItems[m[k]].y : k \in ks})
                top == SetMax({10 * (pdfTextItems[m[k]].y
                                       + pdfTextItems[m[k]].height) : k \in ks})
            IN /\ box.x <= left - 10 * BoxMargin
               /\ box.x + box.width >= right + 10 * BoxMargin
               /\ box.y <= bottom - 10 * BoxMargin
               /\ box.y + box.height >= top + 10 * BoxMargin

\* C14: every region of the list has a pageIndex that is a page of the
\* document now loaded: 0 <= pageIndex < numPages.
C14_RegionsOnPagesOfDocument ==
    \A k \in 1..Len(redactions) :
        /\ redactions[k].pageIndex >= 0
        /\ redactions[k].pageIndex < pdfDocument.numPages

\* Two regions of list l are on the same page and their rectangles overlap
\* (a region drawn twice overlaps its copy).
Overlapping(l) ==
    \E a, b \in 1..Len(l) :
        /\ a # b
        /\ l[a].pageIndex = l[b].pageIndex
        /\ l[a].x < l[b].x + l[b].width /\ l[b].x < l[a].x + l[a].width
        /\ l[a].y < l[b].y + l[b].height /\ l[b].y < l[a].y + l[a].height

C18_EncryptedSourceHasOwnMessage ==
    [][\A k \in 1..Len(exports) :
          EarlierRecoverableLoad(k, "EncryptedPDFError") =>
              /\ toast' # "Download Error: recoverable"
              /\ download' = NoDownload
              /\ isDownloading' = "null"]_vars

\* C19: when the load of an uploaded document fails, the message shown for
\* a password-protected document is not the one shown for an unreadable
\* document, and afterwards the session holds no bytes, no parsed document,
\* no text items, no regions and no terms, and isParsing is false.
C19_FailedLoadResetsSession ==
    [][\A outcome \in {"PasswordException", "InvalidPDFException"} :
          TermLoadSettles(outcome) =>
              /\ toast' # ""
              /\ outcome = "PasswordException" => toast' # "PDF Parsing Error"
              /\ originalPdf' = NoDocument
              /\ pdfDocument' = NoDocument
              /\ pdfTextItems' = <<>>
              /\ redactions' = <<>>
              /\ redactionTerms' = <<>>
              /\ ~isParsing']_vars

\* The message of a failed export that names the mode.
FailureNaming(mode) ==
    IF mode = "recoverable" THEN "Download Error: recoverable"
    ELSE "Download Error: secure"

\* C20: a step hands bytes to downloadPdf only as the last step of an export
\* whose page loop has gone through every page and whose save() resolved,
\* and that export is then over, so it downloads once at most; a step that
\* ends an export without a download shows the failure message naming the
\* export's mode and leaves the region list as it is.
C20_DownloadOnlyWhenSaved ==
    [][/\ download' # NoDownload =>
              \E k \in 1..Len(exports) :
                  /\ exports[k].pc = "save"
                  /\ exports[k].mode = "flattened" =>
                         exports[k].i = exports[k].originalPdf.numPages
                  /\ exports[k].mode = "recoverable" =>
                         Len(exports[k].pages) = exports[k].originalPdf.numPages
                  /\ download'.pages = exports[k].pages
                  /\ exports' = RemoveAt(exports, k)
       /\ \A k \in 1..Len(exports) :
              (exports' = RemoveAt(exports, k) /\ download' = NoDownload) =>
                  /\ toast' = FailureNaming(exports[k].mode)
                  /\ redactions' = redactions]_vars

\* C21: every page of the document the secure export hands to the download
\* has the width and the height, in page units, of the page of the source it
\* was made from.
C21_SecurePagesKeepSourceSize ==
    download.mode = "flattened" =>
        \A n \in 1..Len(download.pages) : download.pages[n].size = SourcePageSize

\* The suffix the other export mode passes to getRedactedFilename.
OtherSuffix(mode) == IF mode = "recoverable" THEN "secure" ELSE "recoverable"

\* C22: the file name an export hands to downloadPdf is not the name the
\* export of the other mode gives the same source file: the name tells the
\* mode.
C22_FilenameTellsMode ==
    [][\A k \in 1..Len(exports) :
          (download' # NoDownload /\ exports' = RemoveAt(exports, k)) =>
              download'.filename
                  # getRedactedFilename(exports[k].originalFilename,
                                        OtherSuffix(exports[k].mode))]_vars

\* C23: a step of Undo removes exactly the region that was added last among
\* those still in the list and leaves every other region in place, in the
\* same order, so that repeated steps remove the regions in the reverse of
\* the order they were added; the slice of an empty list is the empty list.
C23_UndoRemovesLatestRegion ==
    [][Undo =>
          /\ insertionOrder # <<>>
          /\ LET latest == insertionOrder[Len(insertionOrder)]
             IN /\ \E k \in 1..Len(redactions) : redactions[k].id = latest
                /\ redactions' = SelectSeq(redactions, LAMBDA r : r.id # latest)
          /\ slice(<<>>) = <<>>]_vars

\* Undo is enabled on a list of two regions of which the first was added
\* after an earlier region had been removed from in front of the second.
C23_Witness ==
    /\ EditButtonsEnabled
    /\ Len(redactions) = 2
    /\ redactions[1].id > redactions[2].id
    /\ insertionOrder = <<redactions[1].id, redactions[2].id>>

\* C29: a right-click on the region at index k of the list removes exactly
\* that region and leaves every other region in place, in the same order,
\* regions with the same page and the same rectangle included.
C29_RemovesOnlyTheClickedRegion ==
    [][\A k \in 1..MaxRegions :
          RemoveSingleRedaction(k) => redactions' = RemoveAt(redactions, k)]_vars

\* Two regions with the same page and rectangle are on the page shown, where
\* a right-click can reach either.
C29_Witness ==
    /\ Len(redactions) = 2
    /\ sameGeometry(redactions[1], redactions[2])
    /\ ENABLED RemoveSingleRedaction(1)
    /\ ENABLED RemoveSingleRedaction(2)

\* C24: the secure export paints each region r on the page bitmap at the
\* rectangle (r.x * s, canvasHeight - (r.y + r.height) * s, r.width * s,
\* r.height * s), s being the oversampling factor and canvasHeight the
\* height of the bitmap.
C24_RasterRectangleOfRegion ==
    searched =>
        \A a \in 1..Len(results) :
            LET r == matchBox(results[a])
            IN termFillRect(r)
                 = [ x |-> r.x * RenderScale,
                     y |-> termViewportHeight - (r.y + r.height) * RenderScale,
                     width |-> r.width * RenderScale,
                     height |-> r.height * RenderScale ]

\* C25: findMatchingTextItems returns for every term and item list; from
\* every start index the inner loop goes forward only, adds no item to the
\* buffer once the buffer is longer than the term by more than 20
\* characters, and so adds at most (length of the term + 21) items whatever
\* the length of the list.
C25_ScanStopsWhenBufferOutgrowsTerm ==
    searched =>
        /\ results = findMatchingTextItems(term)
        /\ \A i \in 1..Len(pdfTextItems) :
              LET bs == Buffers(pdfTextItems, term, i, i, <<>>)
                  j == ScanFrom(pdfTextItems, term, i, i, <<>>)
              IN /\ \A n \in 1..(Len(bs) - 1) :
                        Len(bs[n]) <= Len(term) + BufferSlack
                 /\ Len(bs) <= Len(term) + BufferSlack + 1
                 /\ j \in {0, i + Len(bs) - 1}
                 /\ j # 0 => NextStart(i, j) > i

\* A scan that ended because the buffer had outgrown the term, before an
\* item of the same line that it would otherwise have gone on to.
C25_Witness ==
    /\ searched
    /\ \E i \in 1..Len(pdfTextItems) :
          LET bs == Buffers(pdfTextItems, term, i, i, <<>>)
              last == i + Len(bs) - 1
          IN /\ Len(bs) > 1
             /\ Len(bs[Len(bs)]) > Len(term) + BufferSlack
             /\ ScanFrom(pdfTextItems, term, i, i, <<>>) = 0
             /\ last < Len(pdfTextItems)
             /\ ~BreaksBefore(pdfTextItems[last + 1], pdfTextItems[last])

\* C30: for one document and one term list the recoverable export and the
\* secure export of the term tool compute the same rectangles: the same page
\* index, x, y, width and height, in the same order, and so the same
\* rectangles in the same order on every page.
C30_ExportsComputeSameRectangles ==
    LET drawn == drawRectangle
    IN /\ drawn = redactionAreas
       /\ searched => results = drawn
       /\ \A k \in 1..Len(pdfTextItems) :
             LET pageIndex == pdfTextItems[k].pageIndex
             IN redactionAreasByPage(pageIndex)
                  = SelectSeq(drawn, LAMBDA r : r.pageIndex = pageIndex)

\* An export has computed rectangles for two terms, on two pages, two of
\* them of different widths on one page.
C30_Witness ==
    /\ searched
    /\ Len(allTerms(redactionTerms)) = 2
    /\ \E a, b \in 1..Len(results) : results[a].pageIndex # results[b].pageIndex
    /\ \E a, b \in 1..Len(results) :
          /\ a < b
          /\ results[a].pageIndex = results[b].pageIndex
          /\ results[a].width # results[b].width

\* C26: every export that starts finishes: whenever isDownloading is set it
\* is later null again, provided every promise the export awaits settles,
\* whatever the PNG encoding yields, a null blob included.
C26_ExportEventuallyFinishes ==
    (isDownloading # "null") ~> (isDownloading = "null")

\* C27: whenever no call of renderPage is in progress, the stored viewport
\* is the viewport of the page shown, in whatever order the calls resumed.
C27_ViewportIsOfPageShown ==
    (renders = <<>> /\ pdfDocument # NoDocument /\ pageViewport # NoViewport)
        => viewportPage = currentPageNumber

\* C28: after Reset the session holds no document until a new upload is
\* started, whatever load or annotation removal was in progress at the
\* Reset.  originalFilename is empty exactly from a Reset (or a failed load,
\* or construction) to the start of the next upload, which stores the name
\* of its file.
C28_NoDocumentAfterReset ==
    originalFilename = <<>> =>
        (originalPdf = NoDocument /\ pdfDocument = NoDocument)
====
